---- MODULE Spec2Model ----
(***************************************************************************)
(* A model of the LinkedIn jobs scraping engine (linkedin_jobs_api.py):    *)
(* the parameter translator (LinkedInJobsQuery getters and url), the       *)
(* result cache (JobCache), the listing parser and the search loop of      *)
(* LinkedInJobsQuery.get_jobs, run by cooperating tasks that suspend at    *)
(* network calls and pacing delays and share the module-level cache.       *)
(*                                                                         *)
(* Strings that the code only compares are TLA+ strings; strings whose     *)
(* characters the code rewrites (keyword, location) are sequences of       *)
(* one-character strings. A URL is the sequence of its parts in the order  *)
(* the code concatenates them.                                             *)
(***************************************************************************)
EXTENDS Integers, Sequences, FiniteSets, TLC

----------------------------------------------------------------------------
(* Generic helpers *)

\* Python s[:n] for n >= 0
Take(s, n) == IF n >= Len(s) THEN s ELSE SubSeq(s, 1, n)

----------------------------------------------------------------------------
(* Parameter translator: LinkedInJobsQuery.__init__, the get_* methods, url *)

\* str.strip(): leading and trailing blanks removed
RECURSIVE LStrip(_)
LStrip(s) == IF s # <<>> /\ Head(s) = " " THEN LStrip(Tail(s)) ELSE s

RECURSIVE RStrip(_)
RStrip(s) ==
    IF s # <<>> /\ s[Len(s)] = " " THEN RStrip(SubSeq(s, 1, Len(s) - 1)) ELSE s

strip(s) == RStrip(LStrip(s))

\* str.replace(' ', '+')
replace_space_plus(s) == [i \in 1..Len(s) |-> IF s[i] = " " THEN "+" ELSE s[i]]

\* urllib.parse.quote_plus on the characters of the model's alphabet:
\* a blank becomes "+", a "+" is percent-encoded, a letter is kept
quote_plus(s) ==
    [i \in 1..Len(s) |-> CASE s[i] = " " -> "+"
                           [] s[i] = "+" -> "%2B"
                           [] OTHER -> s[i]]

\* str.lower() on the spellings the model feeds to the lookups
lower(s) ==
    CASE s = "Past Week" -> "past week"
      [] s = "PAST MONTH" -> "past month"
      [] s = "24HR" -> "24hr"
      [] s = "Senior" -> "senior"
      [] s = "Full Time" -> "full time"
      [] s = "REMOTE" -> "remote"
      [] s = "Hybrid" -> "hybrid"
      [] s = "Recent" -> "recent"
      [] OTHER -> s

date_range ==
    [k \in {"past month", "past week", "24hr"} |->
        CASE k = "past month" -> "r2592000"
          [] k = "past week" -> "r604800"
          [] k = "24hr" -> "r86400"]

experience_range ==
    [k \in {"internship", "entry level", "associate", "senior", "director",
            "executive"} |->
        CASE k = "internship" -> "1"
          [] k = "entry level" -> "2"
          [] k = "associate" -> "3"
          [] k = "senior" -> "4"
          [] k = "director" -> "5"
          [] k = "executive" -> "6"]

job_type_range ==
    [k \in {"full time", "full-time", "part time", "part-time", "contract",
            "temporary", "volunteer", "internship"} |->
        CASE k = "full time" -> "F"
          [] k = "full-time" -> "F"
          [] k = "part time" -> "P"
          [] k = "part-time" -> "P"
          [] k = "contract" -> "C"
          [] k = "temporary" -> "T"
          [] k = "volunteer" -> "V"
          [] k = "internship" -> "I"]

remote_filter_range ==
    [k \in {"on-site", "on site", "remote", "hybrid"} |->
        CASE k = "on-site" -> "1"
          [] k = "on site" -> "1"
          [] k = "remote" -> "2"
          [] k = "hybrid" -> "3"]

\* the keys of salary_range are Python ints
salary_range ==
    [k \in {40000, 60000, 80000, 100000, 120000} |->
        CASE k = 40000 -> "1"
          [] k = 60000 -> "2"
          [] k = 80000 -> "3"
          [] k = 100000 -> "4"
          [] k = 120000 -> "5"]

\* dict.get(key, '') on a str-keyed table
dict_get(table, key) == IF key \in DOMAIN table THEN table[key] ELSE ""

\* A salary value as the caller supplies it: a Python int or a Python str.
IntVal(n) == [kind |-> "int", n |-> n, s |-> ""]
StrVal(s) == [kind |-> "str", n |-> 0, s |-> s]

\* The query object built by the constructor from the caller's dict.
LinkedInJobsQuery(query_obj) ==
    [host |-> query_obj.host,
     keyword |-> replace_space_plus(strip(query_obj.keyword)),
     location |-> replace_space_plus(strip(query_obj.location)),
     date_since_posted |-> query_obj.dateSincePosted,
     job_type |-> query_obj.jobType,
     remote_filter |-> query_obj.remoteFilter,
     salary |-> query_obj.salary,
     experience_level |-> query_obj.experienceLevel,
     sort_by |-> query_obj.sortBy,
     limit |-> query_obj.limit,
     page |-> query_obj.page,
     has_verification |-> query_obj.has_verification,
     under_10_applicants |-> query_obj.under_10_applicants]

get_date_since_posted(self) == dict_get(date_range, lower(self.date_since_posted))

get_experience_level(self) == dict_get(experience_range, lower(self.experience_level))

get_job_type(self) == dict_get(job_type_range, lower(self.job_type))

\* variant: an unknown value is passed through (dict.get(key, key))
get_remote_filter_passthrough(self) ==
    IF lower(self.remote_filter) \in DOMAIN remote_filter_range
    THEN remote_filter_range[lower(self.remote_filter)]
    ELSE self.remote_filter

get_remote_filter(self) == dict_get(remote_filter_range, lower(self.remote_filter))

\* a str never equals an int key, so only an int finds its code
get_salary(self) ==
    IF self.salary.kind = "int" /\ self.salary.n \in DOMAIN salary_range
    THEN salary_range[self.salary.n]
    ELSE ""

get_has_verification(self) == IF self.has_verification THEN "true" ELSE "false"

get_under_10_applicants(self) == IF self.under_10_applicants THEN "true" ELSE "false"

batch_size == 25

\* variant: the page index is added to the offset as it is
get_page_index(self) == self.page

get_page(self) == self.page * batch_size

\* One query parameter when cond holds, none otherwise (the dict is built in
\* insertion order and urlencode keeps that order).
Param(cond, name, value) == IF cond THEN <<(<<name, value>>)>> ELSE <<>>

sort_param(self) ==
    IF self.sort_by = "recent" THEN <<(<<"sortBy", "DD">>)>>
    ELSE IF self.sort_by = "relevant" THEN <<(<<"sortBy", "R">>)>>
    ELSE <<>>

\* url(start): the base URL (host) followed by the encoded parameters
url(self, start) ==
    <<(<<"host", self.host>>)>>
    \o Param(self.keyword # <<>>, "keywords", quote_plus(self.keyword))
    \o Param(self.location # <<>>, "location", quote_plus(self.location))
    \o Param(get_date_since_posted(self) # "", "f_TPR", get_date_since_posted(self))
    \o Param(get_salary(self) # "", "f_SB2", get_salary(self))
    \o Param(get_experience_level(self) # "", "f_E", get_experience_level(self))
    \o Param(get_remote_filter(self) # "", "f_WT", get_remote_filter(self))
    \o Param(get_job_type(self) # "", "f_JT", get_job_type(self))
    \o <<(<<"f_VJ", get_has_verification(self)>>)>>
    \o <<(<<"f_EA", get_under_10_applicants(self)>>)>>
    \o <<(<<"start", start + get_page(self)>>)>>
    \o sort_param(self)

\* variant: the key leaves the limit out
get_cache_key_nolimit(self) == url(self, 0)

\* f"{self.url(0)}_limit:{self.limit}"
get_cache_key(self) == Append(url(self, 0), <<"_limit:", self.limit>>)

\* Reading a URL back: the set of values a wire key carries (empty: omitted)
WireValues(u, name) == {u[i][2] : i \in {j \in 1..Len(u) : u[j][1] = name}}

----------------------------------------------------------------------------
(* Result cache: class JobCache. The cache dict is a function from the keys *)
(* present to entries. An optional value (Python None or a list) is a       *)
(* record with a flag.                                                      *)

None == [some |-> FALSE, v |-> <<>>]
Some(x) == [some |-> TRUE, v |-> x]

\* JobCache.__init__: ttl in seconds
ttl == 3600

\* variant: set extends the list of an entry that is already there
JobCache_set_extend(c, key, value, t) ==
    [k \in (DOMAIN c) \cup {key} |->
        IF k # key THEN c[k]
        ELSE [data |-> (IF key \in DOMAIN c THEN c[key].data ELSE <<>>) \o value,
              timestamp |-> t]]

\* JobCache.set: whole-value replacement, stamped with the current time
JobCache_set(c, key, value, t) ==
    [k \in (DOMAIN c) \cup {key} |->
        IF k = key THEN [data |-> value, timestamp |-> t] ELSE c[k]]

\* dict deletion
Del(c, key) == [k \in (DOMAIN c) \ {key} |-> c[k]]

\* variant: an entry exactly ttl old counts as expired
expired_ge(entry, t) == t - entry.timestamp >= ttl

\* the expiry test of get and clear
expired(entry, t) == t - entry.timestamp > ttl

\* variant: a hit stamps the entry with the time of the lookup
JobCache_get_touch(c, key, t) ==
    IF key \notin DOMAIN c THEN [ret |-> None, cache |-> c]
    ELSE IF expired(c[key], t) THEN [ret |-> None, cache |-> Del(c, key)]
    ELSE [ret |-> Some(c[key].data),
          cache |-> [c EXCEPT ![key] = [data |-> c[key].data, timestamp |-> t]]]

\* variant: a lookup evicts every expired entry, not only the one of its key
JobCache_get_purge(c, key, t) ==
    LET kept == [k \in {x \in DOMAIN c : ~expired(c[x], t)} |-> c[k]]
    IN IF key \notin DOMAIN kept THEN [ret |-> None, cache |-> kept]
       ELSE [ret |-> Some(c[key].data), cache |-> kept]

\* JobCache.get: the value returned and the cache it leaves behind
JobCache_get(c, key, t) ==
    IF key \notin DOMAIN c THEN [ret |-> None, cache |-> c]
    ELSE IF expired(c[key], t) THEN [ret |-> None, cache |-> Del(c, key)]
    ELSE [ret |-> Some(c[key].data), cache |-> c]

\* variant: clear empties the dict (self.cache.clear())
JobCache_clear_all(c, t) == [k \in {} |-> c[k]]

\* JobCache.clear: drop every expired entry
JobCache_clear(c, t) ==
    [k \in {x \in DOMAIN c : ~expired(c[x], t)} |-> c[k]]

\* JobCache.size
JobCache_size(c) == Cardinality(DOMAIN c)

----------------------------------------------------------------------------
(* Listing parser: _parse_job_list and _extract_job_data. A page body is    *)
(* the sequence of its <li> elements (or markup the HTML parser fails on);  *)
(* an element carries the text of each sub-element the extractor looks for, *)
(* "" when the sub-element is missing. The salary sub-element is optional   *)
(* (a sequence of at most one text), because its absence has a default.     *)

\* variant: an element is dropped only when both position and company are
\* missing ("and" for "or" in the validity test)
_extract_job_data_either(element) ==
    IF element.raises THEN None
    ELSE IF element.title = "" /\ element.subtitle = "" THEN None
    ELSE Some([position |-> element.title,
               company |-> element.subtitle,
               location |-> element.location,
               date |-> element.datetime,
               salary |-> IF element.salary = <<>> THEN "Not specified"
                          ELSE element.salary[1],
               jobUrl |-> element.href,
               companyLogo |-> element.logo,
               agoTime |-> element.listdate])

\* _extract_job_data: None for an element without position or company, or
\* one whose extraction raises
_extract_job_data(element) ==
    IF element.raises THEN None
    ELSE IF element.title = "" \/ element.subtitle = "" THEN None
    ELSE Some([position |-> element.title,
               company |-> element.subtitle,
               location |-> element.location,
               date |-> element.datetime,
               salary |-> IF element.salary = <<>> THEN "Not specified"
                          ELSE element.salary[1],
               jobUrl |-> element.href,
               companyLogo |-> element.logo,
               agoTime |-> element.listdate])

RECURSIVE parse_elements(_)
parse_elements(els) ==
    IF els = <<>> THEN <<>>
    ELSE LET job_data == _extract_job_data(Head(els))
         IN (IF job_data.some THEN <<job_data.v>> ELSE <<>>)
            \o parse_elements(Tail(els))

\* variant: an element whose extraction raises loses the whole page (no
\* try around the single element)
_parse_job_list_abort(html_content) ==
    IF ~html_content.parses THEN <<>>
    ELSE IF \E i \in 1..Len(html_content.li) : html_content.li[i].raises THEN <<>>
    ELSE parse_elements(html_content.li)

\* _parse_job_list: the records of the valid elements in page order; an
\* empty list when parsing the page fails
_parse_job_list(html_content) ==
    IF ~html_content.parses THEN <<>> ELSE parse_elements(html_content.li)

----------------------------------------------------------------------------
(* Listing fetcher: fetch_job_batch. A response is what the network call   *)
(* produced: an HTTP status with a body, or a transport failure.           *)

Raise(kind, status) == [raised |-> TRUE, kind |-> kind, status |-> status, jobs |-> <<>>]
Return(jobs) == [raised |-> FALSE, kind |-> "", status |-> 200, jobs |-> jobs]

\* variant: an HTTP error other than 429 is logged and gives an empty batch
fetch_job_batch_swallow(response) ==
    IF response.transport THEN Raise("Transport", 0)
    ELSE IF response.status = 200 THEN Return(_parse_job_list(response.body))
    ELSE IF response.status = 429 THEN Raise("RateLimited", 429)
    ELSE Return(<<>>)

fetch_job_batch(response) ==
    IF response.transport THEN Raise("Transport", 0)
    ELSE IF response.status = 200 THEN Return(_parse_job_list(response.body))
    ELSE IF response.status = 429 THEN Raise("RateLimited", 429)
    ELSE Raise("HttpError", response.status)

----------------------------------------------------------------------------
(* Python str values of the detail path: sequences of one-character        *)
(* strings, with the str methods and the regular expressions the code      *)
(* applies to them.                                                        *)

\* the string literals and the words of the texts, spelled out
Chars(w) ==
    CASE w = "" -> <<>>
      [] w = "3" -> <<"3">>
      [] w = " " -> <<" ">>
      [] w = "days" -> <<"d", "a", "y", "s">>
      [] w = "ago" -> <<"a", "g", "o">>
      [] w = "Days" -> <<"D", "a", "y", "s">>
      [] w = "Ago" -> <<"A", "g", "o">>
      [] w = "1" -> <<"1">>
      [] w = "day" -> <<"d", "a", "y">>
      [] w = "5" -> <<"5">>
      [] w = "hours" -> <<"h", "o", "u", "r", "s">>
      [] w = "2" -> <<"2">>
      [] w = "weeks" -> <<"w", "e", "e", "k", "s">>
      [] w = "month" -> <<"m", "o", "n", "t", "h">>
      [] w = "years" -> <<"y", "e", "a", "r", "s">>
      [] w = "Posted" -> <<"P", "o", "s", "t", "e", "d">>
      [] w = "reposted" -> <<"r", "e", "p", "o", "s", "t", "e", "d">>
      [] w = "9999" -> <<"9", "9", "9", "9">>
      [] w = "Just" -> <<"J", "u", "s", "t">>
      [] w = "now" -> <<"n", "o", "w">>
      [] w = "25" -> <<"2", "5">>
      [] w = "people" -> <<"p", "e", "o", "p", "l", "e">>
      [] w = "clicked" -> <<"c", "l", "i", "c", "k", "e", "d">>
      [] w = "apply" -> <<"a", "p", "p", "l", "y">>
      [] w = "applicant" -> <<"a", "p", "p", "l", "i", "c", "a", "n", "t">>
      [] w = "Be" -> <<"B", "e">>
      [] w = "among" -> <<"a", "m", "o", "n", "g">>
      [] w = "the" -> <<"t", "h", "e">>
      [] w = "first" -> <<"f", "i", "r", "s", "t">>
      [] w = "applicants" -> <<"a", "p", "p", "l", "i", "c", "a", "n", "t", "s">>
      [] w = "be" -> <<"b", "e">>
      [] w = "7" -> <<"7">>
      [] w = "+" -> <<"+">>
      [] w = "100" -> <<"1", "0", "0">>
      [] w = "Over" -> <<"O", "v", "e", "r">>
      [] w = "to" -> <<"t", "o">>
      [] w = "2024-01-05" -> <<"2", "0", "2", "4", "-", "0", "1", "-", "0", "5">>
      [] w = "https://" -> <<"h", "t", "t", "p", "s", ":", "/", "/">>
      [] w = "www.linkedin.com" -> <<"w", "w", "w", ".", "l", "i", "n", "k", "e", "d", "i", "n", ".", "c", "o", "m">>
      [] w = "/jobs/view/" -> <<"/", "j", "o", "b", "s", "/", "v", "i", "e", "w", "/">>
      [] w = "pt.linkedin.com" -> <<"p", "t", ".", "l", "i", "n", "k", "e", "d", "i", "n", ".", "c", "o", "m">>
      [] w = "?from=" -> <<"?", "f", "r", "o", "m", "=">>
      [] w = "de.linkedin.com" -> <<"d", "e", ".", "l", "i", "n", "k", "e", "d", "i", "n", ".", "c", "o", "m">>
      [] w = "linkedin.com" -> <<"l", "i", "n", "k", "e", "d", "i", "n", ".", "c", "o", "m">>
      [] w = "evil.example" -> <<"e", "v", "i", "l", ".", "e", "x", "a", "m", "p", "l", "e">>
      [] w = "/" -> <<"/">>
      [] w = "http://" -> <<"h", "t", "t", "p", ":", "/", "/">>
      [] w = "/feed/" -> <<"/", "f", "e", "e", "d", "/">>
      [] w = "uk.linkedin.com" -> <<"u", "k", ".", "l", "i", "n", "k", "e", "d", "i", "n", ".", "c", "o", "m">>
      [] w = ".evil.example" -> <<".", "e", "v", "i", "l", ".", "e", "x", "a", "m", "p", "l", "e">>
      [] w = " applicants" -> <<" ", "a", "p", "p", "l", "i", "c", "a", "n", "t", "s">>
      [] w = "s" -> <<"s">>
      [] w = "hour" -> <<"h", "o", "u", "r">>
      [] w = "week" -> <<"w", "e", "e", "k">>
      [] w = "year" -> <<"y", "e", "a", "r">>
      [] w = "peopl" -> <<"p", "e", "o", "p", "l">>
      [] w = "e" -> <<"e">>
      [] w = "clicke" -> <<"c", "l", "i", "c", "k", "e">>
      [] w = "d" -> <<"d">>
      [] w = "100+" -> <<"1", "0", "0", "+">>
      [] w = "over 100" -> <<"o", "v", "e", "r", " ", "1", "0", "0">>
      [] w = "100+ applicants" -> <<"1", "0", "0", "+", " ", "a", "p", "p", "l", "i", "c", "a", "n", "t", "s">>
      [] w = "\n" -> <<"\n">>
      [] w = "https://www.linkedin.com/jobs/view/" -> <<"h", "t", "t", "p", "s", ":", "/", "/", "w", "w", "w", ".", "l", "i", "n", "k", "e", "d", "i", "n", ".", "c", "o", "m", "/", "j", "o", "b", "s", "/", "v", "i", "e", "w", "/">>
      [] w = "https://pt.linkedin.com/jobs/view/" -> <<"h", "t", "t", "p", "s", ":", "/", "/", "p", "t", ".", "l", "i", "n", "k", "e", "d", "i", "n", ".", "c", "o", "m", "/", "j", "o", "b", "s", "/", "v", "i", "e", "w", "/">>
      [] w = "/linkedin.com/jobs/view/" -> <<"/", "l", "i", "n", "k", "e", "d", "i", "n", ".", "c", "o", "m", "/", "j", "o", "b", "s", "/", "v", "i", "e", "w", "/">>
      [] w = ".linkedin.com" -> <<".", "l", "i", "n", "k", "e", "d", "i", "n", ".", "c", "o", "m">>

\* str concatenation of spelled-out words
RECURSIVE Join(_)
Join(ws) == IF ws = <<>> THEN <<>> ELSE Chars(Head(ws)) \o Join(Tail(ws))

Digits == {"0", "1", "2", "3", "4", "5", "6", "7", "8", "9"}

\* the characters \s matches
Whitespace == {" ", "\n"}

lower_char(c) ==
    CASE c = "A" -> "a"
      [] c = "B" -> "b"
      [] c = "C" -> "c"
      [] c = "D" -> "d"
      [] c = "E" -> "e"
      [] c = "F" -> "f"
      [] c = "G" -> "g"
      [] c = "H" -> "h"
      [] c = "I" -> "i"
      [] c = "J" -> "j"
      [] c = "K" -> "k"
      [] c = "L" -> "l"
      [] c = "M" -> "m"
      [] c = "N" -> "n"
      [] c = "O" -> "o"
      [] c = "P" -> "p"
      [] c = "Q" -> "q"
      [] c = "R" -> "r"
      [] c = "S" -> "s"
      [] c = "T" -> "t"
      [] c = "U" -> "u"
      [] c = "V" -> "v"
      [] c = "W" -> "w"
      [] c = "X" -> "x"
      [] c = "Y" -> "y"
      [] c = "Z" -> "z"
      [] OTHER -> c

\* str.lower
str_lower(s) == [i \in 1..Len(s) |-> lower_char(s[i])]

\* str.startswith
startswith(s, prefix) ==
    Len(prefix) <= Len(s) /\ SubSeq(s, 1, Len(prefix)) = prefix

\* sub occurs in s at position i
OccursAt(s, sub, i) ==
    i + Len(sub) - 1 <= Len(s) /\ SubSeq(s, i, i + Len(sub) - 1) = sub

\* the "in" operator on str
contains(s, sub) == \E i \in 1..(Len(s) + 1) : OccursAt(s, sub, i)

\* str.replace: every non-overlapping occurrence, left to right
RECURSIVE replace_from(_, _, _, _)
replace_from(s, old, new, i) ==
    IF i > Len(s) THEN <<>>
    ELSE IF OccursAt(s, old, i) THEN new \o replace_from(s, old, new, i + Len(old))
    ELSE <<s[i]>> \o replace_from(s, old, new, i + 1)

str_replace(s, old, new) == replace_from(s, old, new, 1)

\* str.isdigit
isdigit(s) == s # <<>> /\ \A i \in 1..Len(s) : s[i] \in Digits

digit_value(c) ==
    CASE c = "0" -> 0 [] c = "1" -> 1 [] c = "2" -> 2 [] c = "3" -> 3 [] c = "4" -> 4
      [] c = "5" -> 5 [] c = "6" -> 6 [] c = "7" -> 7 [] c = "8" -> 8 [] c = "9" -> 9

\* int(s) of a digit string
RECURSIVE int(_)
int(s) ==
    IF s = <<>> THEN 0
    ELSE 10 * int(SubSeq(s, 1, Len(s) - 1)) + digit_value(s[Len(s)])

(* Regular expressions. A pattern is a sequence of items: a literal        *)
(* character, an optional character (x?), a greedy run of a character      *)
(* class (one or more, or any number), whose text group 1 captures when   *)
(* the item is the pattern's first group, or an alternation of patterns.   *)
Lit(c) == [kind |-> "lit", cs |-> {c}, cap |-> FALSE, alts |-> <<>>]
Opt(c) == [kind |-> "opt", cs |-> {c}, cap |-> FALSE, alts |-> <<>>]
Plus(cs, cap) == [kind |-> "plus", cs |-> cs, cap |-> cap, alts |-> <<>>]
Star(cs) == [kind |-> "star", cs |-> cs, cap |-> FALSE, alts |-> <<>>]
Alt(alts) == [kind |-> "alt", cs |-> {}, cap |-> FALSE, alts |-> alts]

\* a literal run of characters
Word(w) == [i \in 1..Len(Chars(w)) |-> Lit(Chars(w)[i])]

NoMatch == [ok |-> FALSE, end |-> 0, group1 |-> <<>>]

\* the number of characters of class cs in a row from position i
RECURSIVE RunLen(_, _, _)
RunLen(text, i, cs) ==
    IF i <= Len(text) /\ text[i] \in cs THEN 1 + RunLen(text, i + 1, cs) ELSE 0

\* The backtracking matcher: the first match of pat at position i in the
\* engine's order of preference (greedy items take the most they can first,
\* alternatives are tried left to right).
RECURSIVE re_match_at(_, _, _, _)
RECURSIVE try_run(_, _, _, _, _, _)
RECURSIVE try_alts(_, _, _, _, _)
re_match_at(pat, text, i, g) ==
    IF pat = <<>> THEN [ok |-> TRUE, end |-> i, group1 |-> g]
    ELSE LET it == Head(pat)
             rest == Tail(pat)
             here == i <= Len(text) /\ text[i] \in it.cs
         IN CASE it.kind = "lit" ->
                  IF here THEN re_match_at(rest, text, i + 1, g) ELSE NoMatch
              [] it.kind = "opt" ->
                  LET taken == IF here THEN re_match_at(rest, text, i + 1, g)
                               ELSE NoMatch
                  IN IF taken.ok THEN taken ELSE re_match_at(rest, text, i, g)
              [] it.kind \in {"plus", "star"} ->
                  try_run(it, rest, text, i, RunLen(text, i, it.cs), g)
              [] it.kind = "alt" -> try_alts(it.alts, rest, text, i, g)

try_run(it, rest, text, i, k, g) ==
    IF k < (IF it.kind = "plus" THEN 1 ELSE 0) THEN NoMatch
    ELSE LET r == re_match_at(rest, text, i + k,
                              IF it.cap THEN SubSeq(text, i, i + k - 1) ELSE g)
         IN IF r.ok THEN r ELSE try_run(it, rest, text, i, k - 1, g)

try_alts(alts, rest, text, i, g) ==
    IF alts = <<>> THEN NoMatch
    ELSE LET r == re_match_at(Head(alts) \o rest, text, i, g)
         IN IF r.ok THEN r ELSE try_alts(Tail(alts), rest, text, i, g)

\* re.search: the match at the leftmost position that has one
RECURSIVE search_from(_, _, _)
search_from(pat, text, i) ==
    IF i > Len(text) + 1 THEN NoMatch
    ELSE LET r == re_match_at(pat, text, i, <<>>)
         IN IF r.ok THEN r ELSE search_from(pat, text, i + 1)

re_search(pat, text) == search_from(pat, text, 1)

----------------------------------------------------------------------------
(* Metadata parser: _parse_job_metadata. The parsed page (soup) carries    *)
(* what the parser looks up: the posted-time span and the applicant        *)
(* caption (each a sequence of at most one stripped text: empty when the   *)
(* element is missing), the first <time> element (at most one datetime     *)
(* attribute value, "" when the attribute is missing) and the page text.   *)
(* now is datetime.now(): the day's ordinal and the hour of the day.       *)

\* A posted date: the text strftime('%Y-%m-%d') gives for a day, or text
\* taken from the page as it is.
IsoDate(day) == [iso |-> TRUE, day |-> day, text |-> <<>>]
RawText(t) == [iso |-> FALSE, day |-> 0, text |-> t]

\* the smallest ordinal a date has (0001-01-01) and the largest number of
\* days a timedelta holds
MinOrdinal == 1
MaxDeltaDays == 999999999

time_pattern(unit) ==
    <<Plus(Digits, TRUE), Plus(Whitespace, FALSE)>> \o Word(unit)
        \o <<Opt("s"), Plus(Whitespace, FALSE)>> \o Word("ago")

\* variant: the day shape is tried before the hour shape
time_patterns_day_first ==
    <<[pattern |-> time_pattern("day"), unit_type |-> "day"],
      [pattern |-> time_pattern("hour"), unit_type |-> "hour"],
      [pattern |-> time_pattern("week"), unit_type |-> "week"],
      [pattern |-> time_pattern("month"), unit_type |-> "month"],
      [pattern |-> time_pattern("year"), unit_type |-> "year"]>>

time_patterns ==
    <<[pattern |-> time_pattern("hour"), unit_type |-> "hour"],
      [pattern |-> time_pattern("day"), unit_type |-> "day"],
      [pattern |-> time_pattern("week"), unit_type |-> "week"],
      [pattern |-> time_pattern("month"), unit_type |-> "month"],
      [pattern |-> time_pattern("year"), unit_type |-> "year"]>>

\* the index of the first pattern from k on that the text matches, 0 if none
RECURSIVE first_match(_, _, _)
first_match(patterns, text, k) ==
    IF k > Len(patterns) THEN 0
    ELSE IF re_search(patterns[k].pattern, text).ok THEN k
    ELSE first_match(patterns, text, k + 1)

\* (now - timedelta(...)).strftime('%Y-%m-%d'): the date, or the
\* OverflowError of a delta or a date out of range
posted_from(now, unit_type, value) ==
    LET hours == IF unit_type = "hour" THEN value ELSE 0
        days == CASE unit_type = "hour" -> 0
                  [] unit_type = "day" -> value
                  [] unit_type = "week" -> 7 * value
                  [] unit_type = "month" -> value * 30
                  [] unit_type = "year" -> value * 365
        day == (now.day * 24 + now.hour - hours) \div 24 - days
    IN IF days > MaxDeltaDays \/ hours \div 24 > MaxDeltaDays \/ day < MinOrdinal
       THEN [exc |-> TRUE, date |-> RawText(<<>>)]
       ELSE [exc |-> FALSE, date |-> IsoDate(day)]

\* the relative-time block: the posted date it leaves, and whether it raised
parse_posted_time(soup, now) ==
    IF soup.posted = <<>> \/ soup.posted[1] = <<>>
    THEN [exc |-> FALSE, date |-> RawText(<<>>)]
    ELSE LET text == str_lower(soup.posted[1])
             k == first_match(time_patterns, text, 1)
         IN IF k = 0 THEN [exc |-> FALSE, date |-> RawText(<<>>)]
            ELSE posted_from(now, time_patterns[k].unit_type,
                             int(re_search(time_patterns[k].pattern, text).group1))

applicant_patterns ==
    <<[pattern |-> <<Plus(Digits, TRUE), Plus(Whitespace, FALSE)>> \o Word("peopl")
                       \o <<Opt("e"), Plus(Whitespace, FALSE)>> \o Word("clicke")
                       \o <<Opt("d"), Plus(Whitespace, FALSE)>> \o Word("apply"),
       pattern_type |-> "people_clicked"],
      [pattern |-> <<Plus(Digits, TRUE), Plus(Whitespace, FALSE)>> \o Word("applicant")
                       \o <<Opt("s")>>,
       pattern_type |-> "applicants"],
      [pattern |-> Word("be") \o <<Plus(Whitespace, FALSE)>> \o Word("among")
                       \o <<Plus(Whitespace, FALSE)>> \o Word("the")
                       \o <<Plus(Whitespace, FALSE)>> \o Word("first")
                       \o <<Plus(Whitespace, FALSE), Plus(Digits, TRUE)>>,
       pattern_type |-> "first_applicants"],
      [pattern |-> <<Plus(Digits, TRUE), Opt("+"), Plus(Whitespace, FALSE)>>
                       \o Word("applicant") \o <<Opt("s")>>,
       pattern_type |-> "applicants_plus"]>>

\* the "100+" test on the lower-cased caption
over_hundred(text) == contains(text, Chars("100+")) \/ contains(text, Chars("over 100"))

\* variant: the "100+" test comes first and the ordered patterns replace it
caption_count_override_first(applicant_text) ==
    LET text == str_lower(applicant_text)
        k == first_match(applicant_patterns, text, 1)
        count == re_search(applicant_patterns[k].pattern, text).group1
    IN IF k # 0 THEN (IF isdigit(count) THEN count \o Chars(" applicants")
                      ELSE applicant_text)
       ELSE IF over_hundred(text) THEN Chars("100+ applicants")
       ELSE <<>>

\* the caption block: the applicant count the ordered patterns and the
\* "100+" test leave for a caption text
caption_count(applicant_text) ==
    LET text == str_lower(applicant_text)
        k == first_match(applicant_patterns, text, 1)
        count == re_search(applicant_patterns[k].pattern, text).group1
    IN IF over_hundred(text) THEN Chars("100+ applicants")
       ELSE IF k = 0 THEN <<>>
       ELSE IF isdigit(count) THEN count \o Chars(" applicants")
       ELSE applicant_text

\* the regular expression of the whole-page scan
page_pattern ==
    <<Plus(Digits, TRUE), Star(Whitespace),
      Alt(<<Word("peopl") \o <<Opt("e"), Star(Whitespace)>> \o Word("clicke")
                \o <<Opt("d"), Star(Whitespace)>> \o Word("apply"),
            Word("applicant") \o <<Opt("s")>>,
            Word("be") \o <<Plus(Whitespace, FALSE)>> \o Word("among")
                \o <<Plus(Whitespace, FALSE)>> \o Word("the")
                \o <<Plus(Whitespace, FALSE)>> \o Word("first")
                \o <<Plus(Whitespace, FALSE), Plus(Digits, FALSE)>>>>)>>

\* the whole-page scan: re.findall(...)[0] is group 1 of the first match
page_count(all_text) ==
    LET m == re_search(page_pattern, str_lower(all_text))
    IN IF m.ok THEN m.group1 \o Chars(" applicants") ELSE <<>>

\* soup.get_text(): the text of the whole page
get_text(soup) ==
    (IF soup.posted = <<>> THEN <<>> ELSE soup.posted[1]) \o Chars("\n")
    \o (IF soup.caption = <<>> THEN <<>> ELSE soup.caption[1]) \o Chars("\n")
    \o soup.body

\* The body of the try block: the two results as they stand when the block
\* ends, normally or with an exception (exc).
metadata_try(soup, now) ==
    LET posted == parse_posted_time(soup, now)
        from_caption == IF soup.caption = <<>> THEN <<>>
                        ELSE caption_count(soup.caption[1])
        posted_date == IF posted.date # RawText(<<>>) THEN posted.date
                       ELSE IF soup.time # <<>> THEN RawText(soup.time[1])
                       ELSE RawText(<<>>)
        from_element == IF from_caption # <<>> THEN from_caption
                        ELSE IF soup.caption # <<>> THEN soup.caption[1]
                        ELSE <<>>
        applicant_count == IF from_element # <<>> THEN from_element
                           ELSE page_count(get_text(soup))
    IN IF posted.exc
       THEN [exc |-> TRUE, posted_date |-> RawText(<<>>), applicant_count |-> <<>>]
       ELSE [exc |-> FALSE, posted_date |-> posted_date,
             applicant_count |-> applicant_count]

\* variant: no try/except around the body
_parse_job_metadata_notry(soup, now) ==
    LET r == metadata_try(soup, now)
    IN [raised |-> r.exc, posted_date |-> r.posted_date,
        applicant_count |-> r.applicant_count]

\* _parse_job_metadata: the exception is logged and the results returned
_parse_job_metadata(soup, now) ==
    LET r == metadata_try(soup, now)
    IN [raised |-> FALSE, posted_date |-> r.posted_date,
        applicant_count |-> r.applicant_count]

----------------------------------------------------------------------------
(* Detail fetcher and the service's detail endpoints: _get_job_details_async *)
(* and get_job_details_endpoint / get_job_details_post. A response is what   *)
(* the one request produced: an HTTP status, with markup the detail parser   *)
(* can or cannot parse, or a transport failure.                              *)

\* the rewriting of the job URL before the request
canonical(job_url) ==
    IF contains(job_url, Chars("pt.linkedin.com"))
    THEN str_replace(job_url, Chars("pt.linkedin.com"), Chars("www.linkedin.com"))
    ELSE job_url

\* variant: every 2xx status counts as success
_get_job_details_async_2xx(job_url, response) ==
    LET target == canonical(job_url)
    IN IF response.transport
       THEN [requested |-> target, raised |-> TRUE, message |-> "transport", http |-> 0,
             error |-> FALSE]
       ELSE IF response.status \in 200..299
       THEN [requested |-> target, raised |-> FALSE, message |-> "", http |-> 200,
             error |-> ~response.parses]
       ELSE IF response.status = 429
       THEN [requested |-> target, raised |-> TRUE, message |-> "Rate limit reached",
             http |-> 429, error |-> FALSE]
       ELSE [requested |-> target, raised |-> TRUE, message |-> "HTTP",
             http |-> response.status, error |-> FALSE]

\* _get_job_details_async: the URL requested, and the details dict returned
\* or the exception raised
_get_job_details_async(job_url, response) ==
    LET target == canonical(job_url)
    IN IF response.transport
       THEN [requested |-> target, raised |-> TRUE, message |-> "transport", http |-> 0,
             error |-> FALSE]
       ELSE IF response.status = 200
       THEN [requested |-> target, raised |-> FALSE, message |-> "", http |-> 200,
             error |-> ~response.parses]
       ELSE IF response.status = 429
       THEN [requested |-> target, raised |-> TRUE, message |-> "Rate limit reached",
             http |-> 429, error |-> FALSE]
       ELSE [requested |-> target, raised |-> TRUE, message |-> "HTTP",
             http |-> response.status, error |-> FALSE]

\* the URL test of both endpoints
valid_job_url(job_url) ==
    \/ startswith(job_url, Chars("https://www.linkedin.com/jobs/view/"))
    \/ startswith(job_url, Chars("https://pt.linkedin.com/jobs/view/"))
    \/ /\ startswith(job_url, Chars("https://"))
       /\ contains(job_url, Chars("/linkedin.com/jobs/view/"))

Answer(status, detail, http, requested) ==
    [status |-> status, detail |-> detail, http |-> http, requested |-> requested]

\* get_job_details_endpoint (GET) and get_job_details_post (POST): the
\* service's answer and the requests issued while handling the call
get_job_details_endpoint(endpoint, job_url, response) ==
    IF endpoint = "POST" /\ job_url = <<>>
    THEN Answer(400, "job_url is required", 0, <<>>)
    ELSE IF ~valid_job_url(job_url)
    THEN Answer(400, "Invalid LinkedIn job URL format", 0, <<>>)
    ELSE LET r == _get_job_details_async(job_url, response)
         IN IF r.raised
            THEN Answer(500, r.message, r.http, <<r.requested>>)
            ELSE IF r.error
            THEN Answer(500, "Failed to parse job details", r.http, <<r.requested>>)
            ELSE Answer(200, "Job details extracted successfully", r.http,
                        <<r.requested>>)

----------------------------------------------------------------------------
(* The search loop: LinkedInJobsQuery.get_jobs, run by tasks that share    *)
(* the module-level cache. A task suspends while a page request is in      *)
(* flight ("fetch"), during the pacing delay ("sleep") and while the       *)
(* HTTP session is being closed ("close").                                 *)

Tasks == {"t1", "t2"}

\* bounds of the model
MaxSearches == 2
MaxTicks == 2

VARIABLES
    cache,      \* the module-level JobCache's dict
    storedBy,   \* per cache key, the URL and limit of the search that stored it
    now,        \* time.time()
    ticks,      \* number of clock advances so far
    site,       \* the listing pages the source holds
    pc,         \* per task, where its get_jobs call stands
    query,      \* per task, the LinkedInJobsQuery instance
    all_jobs,   \* per task, the accumulated list
    start,      \* per task, the batch offset of the loop
    result,     \* per task, the list get_jobs returned (None: nothing returned)
    error,      \* per task, the exception get_jobs raised
    trace,      \* per task, the page requests (wire start offset) and delays so far
    epoch,      \* per task, the number of searches it has started
    lookup,     \* per task, what the search's cache lookup found, and who stored it
    treq,       \* translator run: the caller's query dict
    twire,      \* translator run: the URLs built from it
    msoup,      \* metadata parser run: the parsed detail page
    mnow,       \* metadata parser run: datetime.now()
    mout,       \* metadata parser run: what _parse_job_metadata returned
    durl,       \* detail request: the endpoint called and its job_url
    dout,       \* detail request: the service's answer and the URL requested
    fetches,    \* fetcher runs: the requests made so far, each with its outcome
    admin,      \* cache administration: the last call, what it returned
    threads     \* per thread, the cache operation it runs and where it stands

searchVars == <<cache, storedBy, now, ticks, site, pc, query, all_jobs, start,
                result, error, trace, epoch, lookup>>
urlVars == <<treq, twire>>
metaVars == <<msoup, mnow, mout>>
detailVars == <<durl, dout, fetches>>
vars == <<searchVars, urlVars, metaVars, detailVars, admin, threads>>

\* the detail path before anything ran on it
Soup(posted, caption, time, body) ==
    [posted |-> posted, caption |-> caption, time |-> time, body |-> body]
NotParsed == [done |-> FALSE, raised |-> FALSE, posted_date |-> RawText(<<>>),
              applicant_count |-> <<>>]
MetaIdle ==
    /\ msoup = Soup(<<>>, <<>>, <<>>, <<>>)
    /\ mnow = [day |-> 0, hour |-> 0]
    /\ mout = NotParsed
NoAnswer == Answer(0, "", 0, <<>>)
DetailIdle ==
    /\ durl = [endpoint |-> "GET", job_url |-> <<>>]
    /\ dout = NoAnswer
    /\ fetches = <<>>
NotCalled == [op |-> "none", ret |-> <<>>, before |-> 0]

\* the threads that call the cache side by side, and one that runs nothing
Threads == {"th1", "th2"}
Frame(op, key, at) ==
    [op |-> op, key |-> key, at |-> at, item |-> <<>>, used |-> 0, seen |-> {},
     expired_keys |-> {}, ret |-> None, exc |-> ""]
NoFrame == Frame("none", <<>>, "done")

AdminIdle ==
    /\ admin = NotCalled
    /\ threads = [th \in Threads |-> NoFrame]

\* the elements of a listing page
Li(p, c) ==
    [title |-> p, subtitle |-> c, location |-> "", datetime |-> "",
     salary |-> <<>>, href |-> "", logo |-> "", listdate |-> "", raises |-> FALSE]

Body(els) == [parses |-> TRUE, li |-> els]
Unparseable == [parses |-> FALSE, li |-> <<>>]

\* The sources of the model: each a sequence of page bodies, one per batch
\* offset 0, 25, 50, ...; past its last page a source answers with a page
\* without elements.
Sites ==
    { <<Body(<<Li("p1", "c1"), Li("p2", "c2")>>),
        Body(<<Li("p3", "c3"), [Li("p9", "c9") EXCEPT !.raises = TRUE], Li("p4", "c4")>>)>>,
      <<Body(<<Li("p1", "c1"), Li("p2", "")>>),
        Body(<<Li("", "c3")>>),
        Body(<<[Li("p5", "c5") EXCEPT !.salary = <<"$1">>]>>)>>,
      <<Unparseable,
        Body(<<Li("p3", "c3")>>)>>,
      <<>> }

PageAt(s, offset) ==
    IF offset \div batch_size + 1 \in 1..Len(s)
    THEN s[offset \div batch_size + 1]
    ELSE Body(<<>>)

\* what one page request at a wire offset can produce
Responses(s, offset) ==
    {[transport |-> FALSE, status |-> 200, body |-> PageAt(s, offset)]}
    \cup {[transport |-> FALSE, status |-> st, body |-> Body(<<>>)] : st \in {429, 500, 204}}
    \cup {[transport |-> TRUE, status |-> 0, body |-> Body(<<>>)]}

\* the query dicts callers pass
BaseRequest ==
    [host |-> "www.linkedin.com", keyword |-> <<"d", "e", "v">>, location |-> <<>>,
     dateSincePosted |-> "", jobType |-> "", remoteFilter |-> "",
     salary |-> StrVal(""), experienceLevel |-> "", sortBy |-> "",
     limit |-> 0, page |-> 0,
     has_verification |-> FALSE, under_10_applicants |-> FALSE]

\* The first two differ on the wire only in the limit (the blank before the
\* keyword is stripped, and "Recent" is no sort mode); the third is another
\* wire query.
Requests ==
    { BaseRequest,
      [BaseRequest EXCEPT !.limit = 3, !.keyword = <<" ", "d", "e", "v">>,
                          !.sortBy = "Recent"],
      [BaseRequest EXCEPT !.limit = 2, !.page = 1, !.sortBy = "recent"] }

NoError == [kind |-> "", status |-> 0]

\* who stored a cache entry: the URL of the first page and the limit
Storer(self) == [url |-> url(self, 0), limit |-> self.limit]
NoOne == [url |-> <<>>, limit |-> 0]

\* what a lookup finds, read off the cache before the lookup
LookupKind(c, key, t) ==
    IF key \notin DOMAIN c THEN "absent"
    ELSE IF t - c[key].timestamp < ttl THEN "fresh"
    ELSE IF t - c[key].timestamp = ttl THEN "at_ttl"
    ELSE "expired"

Init ==
    /\ cache = <<>>
    /\ storedBy = <<>>
    /\ now = 0
    /\ ticks = 0
    /\ site \in Sites
    /\ pc = [t \in Tasks |-> "idle"]
    /\ query = [t \in Tasks |-> LinkedInJobsQuery(BaseRequest)]
    /\ all_jobs = [t \in Tasks |-> <<>>]
    /\ start = [t \in Tasks |-> 0]
    /\ result = [t \in Tasks |-> None]
    /\ error = [t \in Tasks |-> NoError]
    /\ trace = [t \in Tasks |-> <<>>]
    /\ epoch = [t \in Tasks |-> 0]
    /\ lookup = [t \in Tasks |-> [kind |-> "none", by |-> NoOne]]
    /\ treq = BaseRequest
    /\ twire = <<>>
    /\ MetaIdle
    /\ DetailIdle
    /\ AdminIdle

Started == epoch["t1"] + epoch["t2"]

\* an entry of a task's trace: a page request with its wire offset, the
\* response with its status (0: no response, a transport failure), a delay
Event(op, arg) == [op |-> op, arg |-> arg]

\* the start offset a page request carries on the wire
request_start(self, batch_start) ==
    CHOOSE v \in WireValues(url(self, batch_start), "start") : TRUE

\* variant: the cached list is used only by a search with a limit
get_jobs_begin_skip(self, c, t) ==
    LET got == JobCache_get(c, get_cache_key(self), t)
    IN IF self.limit # 0 /\ got.ret.some /\ got.ret.v # <<>>
       THEN [pc |-> "done", result |-> Some(got.ret.v), cache |-> got.cache,
             trace |-> <<>>]
       ELSE [pc |-> "fetch", result |-> None, cache |-> got.cache,
             trace |-> <<Event("fetch", request_start(self, 0))>>]

\* variant: the pacing delay also precedes the first page request
get_jobs_begin_pace(self, c, t) ==
    LET got == JobCache_get(c, get_cache_key(self), t)
    IN IF got.ret.some /\ got.ret.v # <<>>
       THEN [pc |-> "done", result |-> Some(got.ret.v), cache |-> got.cache,
             trace |-> <<>>]
       ELSE [pc |-> "fetch", result |-> None, cache |-> got.cache,
             trace |-> <<Event("sleep", 0), Event("fetch", request_start(self, 0))>>]

\* get_jobs up to its first suspension: the cache lookup, then either the
\* cached list is returned or the request for the first page is issued
get_jobs_begin(self, c, t) ==
    LET got == JobCache_get(c, get_cache_key(self), t)
    IN IF got.ret.some /\ got.ret.v # <<>>
       THEN [pc |-> "done", result |-> Some(got.ret.v), cache |-> got.cache,
             trace |-> <<>>]
       ELSE [pc |-> "fetch", result |-> None, cache |-> got.cache,
             trace |-> <<Event("fetch", request_start(self, 0))>>]

StartSearch(t, r) ==
    /\ pc[t] \in {"idle", "done", "failed"}
    /\ Started < MaxSearches
    \* the tasks are interchangeable: t1 names the one that starts first
    /\ t = "t2" => epoch["t1"] > 0
    /\ LET self == LinkedInJobsQuery(r)
           b == get_jobs_begin(self, cache, now)
       IN /\ query' = [query EXCEPT ![t] = self]
          /\ lookup' = [lookup EXCEPT ![t] =
                          [kind |-> LookupKind(cache, get_cache_key(self), now),
                           by |-> IF get_cache_key(self) \in DOMAIN cache
                                  THEN storedBy[get_cache_key(self)] ELSE NoOne]]
          /\ cache' = b.cache
          /\ storedBy' = [k \in DOMAIN b.cache |-> storedBy[k]]
          /\ pc' = [pc EXCEPT ![t] = b.pc]
          /\ result' = [result EXCEPT ![t] = b.result]
          /\ trace' = [trace EXCEPT ![t] = b.trace]
    /\ all_jobs' = [all_jobs EXCEPT ![t] = <<>>]
    /\ start' = [start EXCEPT ![t] = 0]
    /\ error' = [error EXCEPT ![t] = NoError]
    /\ epoch' = [epoch EXCEPT ![t] = @ + 1]
    /\ UNCHANGED <<now, ticks, site, urlVars, metaVars, detailVars, admin, threads>>

\* variant: the list is not cut when the limit is reached
loop_body_notrunc(self, acc, batch_start, jobs) ==
    IF jobs = <<>>
    THEN [pc |-> "close", all_jobs |-> acc, start |-> batch_start, error |-> NoError]
    ELSE IF self.limit # 0 /\ Len(acc \o jobs) >= self.limit
    THEN [pc |-> "close", all_jobs |-> acc \o jobs, start |-> batch_start,
          error |-> NoError]
    ELSE [pc |-> "sleep", all_jobs |-> acc \o jobs, start |-> batch_start + batch_size,
          error |-> NoError]

\* variant: the limit test lacks the "self.limit and" guard
loop_body_nozero(self, acc, batch_start, jobs) ==
    IF jobs = <<>>
    THEN [pc |-> "close", all_jobs |-> acc, start |-> batch_start, error |-> NoError]
    ELSE IF Len(acc \o jobs) >= self.limit
    THEN [pc |-> "close", all_jobs |-> Take(acc \o jobs, self.limit),
          start |-> batch_start, error |-> NoError]
    ELSE [pc |-> "sleep", all_jobs |-> acc \o jobs, start |-> batch_start + batch_size,
          error |-> NoError]

\* variant: the loop ends only when the list is longer than the limit
loop_body_over(self, acc, batch_start, jobs) ==
    IF jobs = <<>>
    THEN [pc |-> "close", all_jobs |-> acc, start |-> batch_start, error |-> NoError]
    ELSE IF self.limit # 0 /\ Len(acc \o jobs) > self.limit
    THEN [pc |-> "close", all_jobs |-> Take(acc \o jobs, self.limit),
          start |-> batch_start, error |-> NoError]
    ELSE [pc |-> "sleep", all_jobs |-> acc \o jobs, start |-> batch_start + batch_size,
          error |-> NoError]

\* One round of the loop once the page request has returned jobs: an empty
\* page ends the loop; otherwise the jobs are appended, and the loop ends
\* with the list cut to the limit, or goes on to the pacing delay.
loop_body(self, acc, batch_start, jobs) ==
    IF jobs = <<>>
    THEN [pc |-> "close", all_jobs |-> acc, start |-> batch_start, error |-> NoError]
    ELSE IF self.limit # 0 /\ Len(acc \o jobs) >= self.limit
    THEN [pc |-> "close", all_jobs |-> Take(acc \o jobs, self.limit),
          start |-> batch_start, error |-> NoError]
    ELSE [pc |-> "sleep", all_jobs |-> acc \o jobs, start |-> batch_start + batch_size,
          error |-> NoError]

\* variant: an exception ends the loop and the pages fetched so far are kept
get_jobs_step_partial(self, acc, batch_start, out) ==
    IF out.raised
    THEN [pc |-> "close", all_jobs |-> acc, start |-> batch_start,
          error |-> [kind |-> out.kind, status |-> out.status]]
    ELSE loop_body(self, acc, batch_start, out.jobs)

\* get_jobs when the awaited fetch_job_batch ends: an exception leaves the
\* loop and the function (the accumulated list is lost with the frame)
get_jobs_step(self, acc, batch_start, out) ==
    IF out.raised
    THEN [pc |-> "failed", all_jobs |-> <<>>, start |-> 0,
          error |-> [kind |-> out.kind, status |-> out.status]]
    ELSE loop_body(self, acc, batch_start, out.jobs)

\* the page request of task t completes with response resp
FetchReturn(t, resp) ==
    /\ pc[t] = "fetch"
    /\ resp \in Responses(site, request_start(query[t], start[t]))
    /\ LET nxt == get_jobs_step(query[t], all_jobs[t], start[t], fetch_job_batch(resp))
       IN /\ pc' = [pc EXCEPT ![t] = nxt.pc]
          /\ all_jobs' = [all_jobs EXCEPT ![t] = nxt.all_jobs]
          /\ start' = [start EXCEPT ![t] = nxt.start]
          /\ error' = [error EXCEPT ![t] = nxt.error]
          /\ trace' = [trace EXCEPT ![t] =
                         Append(@, Event("response", resp.status))
                         \o (IF nxt.pc = "sleep" THEN <<Event("sleep", 0)>> ELSE <<>>)]
    /\ UNCHANGED <<cache, storedBy, now, ticks, site, query, result, epoch, lookup, urlVars, metaVars, detailVars, admin, threads>>

\* the pacing delay of task t is over: the next page request is issued
Wake(t) ==
    /\ pc[t] = "sleep"
    /\ pc' = [pc EXCEPT ![t] = "fetch"]
    /\ trace' = [trace EXCEPT ![t] =
                   Append(@, Event("fetch", request_start(query[t], start[t])))]
    /\ UNCHANGED <<cache, storedBy, now, ticks, site, query, all_jobs, start, result,
                   error, epoch, lookup, urlVars, metaVars, detailVars, admin, threads>>

\* variant: the list is cached whether or not it is empty
get_jobs_end_always(self, acc, c, t) ==
    [cache |-> JobCache_set(c, get_cache_key(self), acc, t),
     result |-> Some(acc)]

\* get_jobs after the loop: a non-empty list is cached, the list is returned
get_jobs_end(self, acc, c, t) ==
    [cache |-> IF acc # <<>> THEN JobCache_set(c, get_cache_key(self), acc, t) ELSE c,
     result |-> Some(acc)]

Finish(t) ==
    /\ pc[t] = "close"
    /\ LET e == get_jobs_end(query[t], all_jobs[t], cache, now)
       IN /\ cache' = e.cache
          /\ result' = [result EXCEPT ![t] = e.result]
          /\ storedBy' = [k \in DOMAIN e.cache |->
                            IF k \notin DOMAIN cache \/ e.cache[k] # cache[k]
                            THEN Storer(query[t])
                            ELSE storedBy[k]]
    /\ pc' = [pc EXCEPT ![t] = "done"]
    /\ all_jobs' = [all_jobs EXCEPT ![t] = <<>>]
    /\ start' = [start EXCEPT ![t] = 0]
    /\ UNCHANGED <<now, ticks, site, query, error, trace, epoch, lookup, urlVars, metaVars, detailVars, admin, threads>>

\* Time passes. Only the age of an entry against ttl matters to the code,
\* so the clock moves by ttl and by one second in turn: an entry is seen
\* fresh, exactly ttl old, and older than ttl.
Tick ==
    /\ ticks < MaxTicks
    /\ now' = now + (IF ticks % 2 = 0 THEN ttl ELSE 1)
    /\ ticks' = ticks + 1
    /\ UNCHANGED <<cache, storedBy, site, pc, query, all_jobs, start, result, error,
                   trace, epoch, lookup, urlVars, metaVars, detailVars, admin, threads>>

\* clear_cache(): the administrative sweep
ClearExpired ==
    /\ cache' = JobCache_clear(cache, now)
    /\ storedBy' = [k \in DOMAIN cache' |-> storedBy[k]]
    /\ UNCHANGED <<now, ticks, site, pc, query, all_jobs, start, result, error,
                   trace, epoch, lookup, urlVars, metaVars, detailVars, admin, threads>>

Next ==
    \/ \E t \in Tasks, r \in Requests : StartSearch(t, r)
    \/ \E t \in Tasks :
          \E resp \in Responses(site, request_start(query[t], start[t])) :
              FetchReturn(t, resp)
    \/ \E t \in Tasks : Wake(t)
    \/ \E t \in Tasks : Finish(t)
    \/ Tick
    \/ ClearExpired

Spec == Init /\ [][Next]_vars

\* The scheduling the searches run under: a page request completes or times
\* out (ClientTimeout(total=10)), the pacing delay ends, and the session
\* closes, each whenever a task waits for it.
Progress ==
    \A t \in Tasks :
        /\ WF_vars(\E resp \in Responses(site, request_start(query[t], start[t])) :
                      FetchReturn(t, resp))
        /\ WF_vars(Wake(t))
        /\ WF_vars(Finish(t))

\* a source with more one-record pages than any limit of the requests
LongSite ==
    <<Body(<<Li("p1", "c1")>>), Body(<<Li("p2", "c2")>>), Body(<<Li("p3", "c3")>>),
      Body(<<Li("p4", "c4")>>), Body(<<Li("p5", "c5")>>)>>

InitLive ==
    /\ cache = <<>>
    /\ storedBy = <<>>
    /\ now = 0
    /\ ticks = 0
    /\ site \in Sites \cup {LongSite}
    /\ pc = [t \in Tasks |-> "idle"]
    /\ query = [t \in Tasks |-> LinkedInJobsQuery(BaseRequest)]
    /\ all_jobs = [t \in Tasks |-> <<>>]
    /\ start = [t \in Tasks |-> 0]
    /\ result = [t \in Tasks |-> None]
    /\ error = [t \in Tasks |-> NoError]
    /\ trace = [t \in Tasks |-> <<>>]
    /\ epoch = [t \in Tasks |-> 0]
    /\ lookup = [t \in Tasks |-> [kind |-> "none", by |-> NoOne]]
    /\ treq = BaseRequest
    /\ twire = <<>>
    /\ MetaIdle
    /\ DetailIdle
    /\ AdminIdle

\* One caller running its searches one after the other, the clock standing
\* still: whether a search ends does not depend on what another task does
\* (there is no lock to wait for), only on the cache it finds and on the
\* source.
NextLive ==
    \/ \E r \in Requests : StartSearch("t1", r)
    \/ \E resp \in Responses(site, request_start(query["t1"], start["t1"])) :
          FetchReturn("t1", resp)
    \/ Wake("t1")
    \/ Finish("t1")

SpecLive == InitLive /\ [][NextLive]_vars /\ Progress

----------------------------------------------------------------------------
(* The parameter translator on its own: a caller's query dict is drawn     *)
(* from the request space and its URL is built for a batch offset.         *)

TranslatorRequests ==
    {[BaseRequest EXCEPT !.keyword = kw, !.dateSincePosted = d, !.jobType = jt,
                         !.remoteFilter = rf, !.salary = sal,
                         !.experienceLevel = ex, !.sortBy = so,
                         !.has_verification = hv, !.under_10_applicants = ua] :
        kw \in {<<>>, <<" ", "a", " ", "b">>},
        d \in {"", "past week", "Past Week", "24hr", "invalid"},
        jt \in {"", "full time", "part-time", "freelance"},
        rf \in {"", "remote", "Hybrid", "moon"},
        sal \in {StrVal(""), IntVal(100000), StrVal("100000")},
        ex \in {"", "senior", "Senior", "guru"},
        so \in {"", "recent", "relevant", "Recent", "oldest"},
        hv \in BOOLEAN, ua \in BOOLEAN}

InitUrl ==
    /\ cache = <<>>
    /\ storedBy = <<>>
    /\ now = 0
    /\ ticks = 0
    /\ site = <<>>
    /\ pc = [t \in Tasks |-> "idle"]
    /\ query = [t \in Tasks |-> LinkedInJobsQuery(BaseRequest)]
    /\ all_jobs = [t \in Tasks |-> <<>>]
    /\ start = [t \in Tasks |-> 0]
    /\ result = [t \in Tasks |-> None]
    /\ error = [t \in Tasks |-> NoError]
    /\ trace = [t \in Tasks |-> <<>>]
    /\ epoch = [t \in Tasks |-> 0]
    /\ lookup = [t \in Tasks |-> [kind |-> "none", by |-> NoOne]]
    /\ treq \in TranslatorRequests
    /\ twire = <<>>
    /\ MetaIdle
    /\ DetailIdle
    /\ AdminIdle

\* url(batch_start) of the query object built from treq
BuildUrl(batch_start) ==
    /\ twire = <<>>
    /\ twire' = url(LinkedInJobsQuery(treq), batch_start)
    /\ UNCHANGED <<treq, searchVars, metaVars, detailVars, admin, threads>>

NextUrl == \E batch_start \in {0, batch_size} : BuildUrl(batch_start)

SpecUrl == InitUrl /\ [][NextUrl]_vars

----------------------------------------------------------------------------
(* The metadata parser on its own: a detail page is drawn from the pages   *)
(* below and parsed at a time of day.                                      *)

\* the search loop and the translator at rest
SearchIdle ==
    /\ cache = <<>>
    /\ storedBy = <<>>
    /\ now = 0
    /\ ticks = 0
    /\ site = <<>>
    /\ pc = [t \in Tasks |-> "idle"]
    /\ query = [t \in Tasks |-> LinkedInJobsQuery(BaseRequest)]
    /\ all_jobs = [t \in Tasks |-> <<>>]
    /\ start = [t \in Tasks |-> 0]
    /\ result = [t \in Tasks |-> None]
    /\ error = [t \in Tasks |-> NoError]
    /\ trace = [t \in Tasks |-> <<>>]
    /\ epoch = [t \in Tasks |-> 0]
    /\ lookup = [t \in Tasks |-> [kind |-> "none", by |-> NoOne]]
    /\ treq = BaseRequest
    /\ twire = <<>>

\* texts of the posted-time span
PostedTexts ==
    { Join(<<"3", " ", "days", " ", "ago">>),
      Join(<<"3", " ", "Days", " ", "Ago">>),
      Join(<<"1", " ", "day", " ", "ago">>),
      Join(<<"5", " ", "hours", " ", "ago">>),
      Join(<<"2", " ", "weeks", " ", "ago">>),
      Join(<<"1", " ", "month", " ", "ago">>),
      Join(<<"2", " ", "years", " ", "ago">>),
      Join(<<"Posted", " ", "2", " ", "days", " ", "ago", " ", "reposted", " ",
             "5", " ", "hours", " ", "ago">>),
      Join(<<"9999", " ", "years", " ", "ago">>),
      Join(<<"3", "days", "ago">>),
      Join(<<"Just", " ", "now">>),
      <<>> }

\* texts of the applicant caption, and of the rest of a page
CountTexts ==
    { Join(<<"25", " ", "people", " ", "clicked", " ", "apply">>),
      Join(<<"1", " ", "applicant">>),
      Join(<<"Be", " ", "among", " ", "the", " ", "first", " ", "25", " ", "applicants">>),
      Join(<<"be", " ", "among", " ", "the", " ", "first", " ", "7">>),
      Join(<<"25", "+", " ", "applicants">>),
      Join(<<"100", "+", " ", "applicants">>),
      Join(<<"Over", " ", "100", " ", "applicants">>),
      Join(<<"Over", " ", "100", " ", "people", " ", "clicked", " ", "apply">>),
      Join(<<"3", " ", "applicants", " ", "25", " ", "people", " ", "clicked", " ", "apply">>),
      Join(<<"25", "applicants">>),
      Join(<<"Be", " ", "the", " ", "first", " ", "to", " ", "apply">>),
      <<>> }

\* datetime attribute values of the page's <time> element
TimeAttrs == { Join(<<"2024-01-05">>), <<>> }

Optional(S) == {<<>>} \cup {<<x>> : x \in S}

DetailPages ==
    {Soup(posted, caption, time, body) :
        posted \in Optional(PostedTexts), caption \in Optional(CountTexts),
        time \in Optional(TimeAttrs), body \in CountTexts}

InitMeta ==
    /\ SearchIdle
    /\ DetailIdle
    /\ AdminIdle
    /\ msoup \in DetailPages
    /\ mnow \in {[day |-> 739925, hour |-> h] : h \in {3, 20}}
    /\ mout = NotParsed

ParseMetadata ==
    /\ ~mout.done
    /\ mout' = [done |-> TRUE] @@ _parse_job_metadata(msoup, mnow)
    /\ UNCHANGED <<msoup, mnow, searchVars, urlVars, detailVars, admin, threads>>

NextMeta == ParseMetadata

SpecMeta == InitMeta /\ [][NextMeta]_vars

----------------------------------------------------------------------------
(* The detail endpoints on their own: one call with a job_url, answered    *)
(* by the source with one of the responses.                                *)

DetailUrls ==
    { Join(<<"https://", "www.linkedin.com", "/jobs/view/", "1">>),
      Join(<<"https://", "www.linkedin.com", "/jobs/view/", "2">>),
      Join(<<"https://", "pt.linkedin.com", "/jobs/view/", "1">>),
      Join(<<"https://", "pt.linkedin.com", "/jobs/view/", "1", "?from=", "pt.linkedin.com">>),
      Join(<<"https://", "de.linkedin.com", "/jobs/view/", "1">>),
      Join(<<"https://", "linkedin.com", "/jobs/view/", "1">>),
      Join(<<"https://", "evil.example", "/", "linkedin.com", "/jobs/view/", "1">>),
      Join(<<"https://", "evil.example", "/", "pt.linkedin.com", "/jobs/view/", "1">>),
      Join(<<"https://", "evil.example", "/jobs/view/", "1">>),
      Join(<<"http://", "www.linkedin.com", "/jobs/view/", "1">>),
      Join(<<"https://", "www.linkedin.com", "/feed/">>),
      Join(<<"https://", "uk.linkedin.com", "/jobs/view/", "1">>),
      Join(<<"https://", "www.linkedin.com", ".evil.example", "/jobs/view/", "1">>),
      Join(<<"www.linkedin.com", "/jobs/view/", "1">>),
      <<>> }

DetailResponses ==
    {[transport |-> FALSE, status |-> st, parses |-> TRUE] : st \in {200, 429, 404}}
    \cup {[transport |-> FALSE, status |-> 200, parses |-> FALSE],
          [transport |-> TRUE, status |-> 0, parses |-> FALSE]}

InitDetail ==
    /\ SearchIdle
    /\ MetaIdle
    /\ AdminIdle
    /\ durl \in {[endpoint |-> e, job_url |-> u] : e \in {"GET", "POST"}, u \in DetailUrls}
    /\ dout = NoAnswer
    /\ fetches = <<>>

DetailRequest(response) ==
    /\ dout = NoAnswer
    /\ dout' = get_job_details_endpoint(durl.endpoint, durl.job_url, response)
    /\ UNCHANGED <<durl, fetches, searchVars, urlVars, metaVars, admin, threads>>

NextDetail == \E response \in DetailResponses : DetailRequest(response)

SpecDetail == InitDetail /\ [][NextDetail]_vars

----------------------------------------------------------------------------
(* Cache administration on its own: clear_cache, get_cache_size and the    *)
(* service's DELETE /cache, called on a cache that earlier searches filled *)
(* at different times.                                                     *)

\* the times entries were stored at, and the times of the calls
Stamps == {0, 1, ttl}
CallTimes == {ttl, ttl + 1, 2 * ttl + 1}

CacheKeys == {get_cache_key(LinkedInJobsQuery(r)) : r \in Requests}

StoredCaches ==
    UNION {{[k \in K |-> [data |-> <<_extract_job_data(Li("p1", "c1")).v>>,
                          timestamp |-> ts[k]]] : ts \in [K -> Stamps]} :
           K \in SUBSET CacheKeys}

InitCache ==
    /\ cache \in StoredCaches
    /\ storedBy = [k \in DOMAIN cache |->
                      Storer(LinkedInJobsQuery(
                          CHOOSE r \in Requests : get_cache_key(LinkedInJobsQuery(r)) = k))]
    /\ now \in CallTimes
    /\ ticks = 0
    /\ site = <<>>
    /\ pc = [t \in Tasks |-> "idle"]
    /\ query = [t \in Tasks |-> LinkedInJobsQuery(BaseRequest)]
    /\ all_jobs = [t \in Tasks |-> <<>>]
    /\ start = [t \in Tasks |-> 0]
    /\ result = [t \in Tasks |-> None]
    /\ error = [t \in Tasks |-> NoError]
    /\ trace = [t \in Tasks |-> <<>>]
    /\ epoch = [t \in Tasks |-> 0]
    /\ lookup = [t \in Tasks |-> [kind |-> "none", by |-> NoOne]]
    /\ treq = BaseRequest
    /\ twire = <<>>
    /\ MetaIdle
    /\ DetailIdle
    /\ AdminIdle

Called(op, ret, before) == [op |-> op, ret |-> ret, before |-> before]

adminFrame == <<now, ticks, site, pc, query, all_jobs, start, result, error, trace,
                epoch, lookup, urlVars, metaVars, detailVars, threads>>

\* clear_cache()
clear_cache ==
    /\ cache' = JobCache_clear(cache, now)
    /\ storedBy' = [k \in DOMAIN cache' |-> storedBy[k]]
    /\ admin' = Called("clear_cache", <<>>, JobCache_size(cache))
    /\ UNCHANGED adminFrame

\* get_cache_size()
get_cache_size ==
    /\ admin' = Called("get_cache_size", <<JobCache_size(cache)>>, JobCache_size(cache))
    /\ UNCHANGED <<cache, storedBy, adminFrame>>

\* DELETE /cache: clear_cache(), then get_cache_size() for the answer
clear_job_cache ==
    /\ cache' = JobCache_clear(cache, now)
    /\ storedBy' = [k \in DOMAIN cache' |-> storedBy[k]]
    /\ admin' = Called("clear_job_cache", <<JobCache_size(cache')>>, JobCache_size(cache))
    /\ UNCHANGED adminFrame

NextCache == clear_cache \/ get_cache_size \/ clear_job_cache

SpecCache == InitCache /\ [][NextCache]_vars

----------------------------------------------------------------------------
(* JobCache under threads. query() runs a search in a worker thread when   *)
(* it is called inside an event loop, and any thread may call it; the      *)
(* module-level cache is shared without a lock. A thread switch can fall   *)
(* between any two steps of a cache method: for get the membership test,   *)
(* the read of the entry, the expiry test and the delete; for clear the    *)
(* making of the iterator, each of its steps, and each delete of the       *)
(* sweep; the store of set is one step. A step returns the frame of the    *)
(* thread and the dict as it leaves them.                                  *)

Stepped(frame, c) == [frame |-> frame, cache |-> c]
Returned(frame, ret) == [frame EXCEPT !.at = "done", !.ret = ret]
Raised(frame, exc) == [frame EXCEPT !.at = "raised", !.exc = exc]

\* if key not in self.cache: return None
JobCache_get_contains(frame, c, t) ==
    IF frame.key \notin DOMAIN c THEN Stepped(Returned(frame, None), c)
    ELSE Stepped([frame EXCEPT !.at = "read"], c)

\* item = self.cache[key]
JobCache_get_item(frame, c, t) ==
    IF frame.key \notin DOMAIN c THEN Stepped(Raised(frame, "KeyError"), c)
    ELSE Stepped([frame EXCEPT !.at = "test", !.item = <<c[frame.key]>>], c)

\* if time.time() - item['timestamp'] > self.ttl: ... else return item['data']
JobCache_get_expiry(frame, c, t) ==
    IF expired(frame.item[1], t) THEN Stepped([frame EXCEPT !.at = "del"], c)
    ELSE Stepped(Returned(frame, Some(frame.item[1].data)), c)

\* del self.cache[key]; return None
JobCache_get_del(frame, c, t) ==
    IF frame.key \notin DOMAIN c THEN Stepped(Raised(frame, "KeyError"), c)
    ELSE Stepped(Returned(frame, None), Del(c, frame.key))

\* self.cache[key] = {...}, with the list of a search that found one record
JobCache_set_store(frame, c, t) ==
    Stepped(Returned(frame, None),
            JobCache_set(c, frame.key, <<_extract_job_data(Li("p1", "c1")).v>>, t))

\* clear: the iterator over self.cache.items() remembers the dict's size
JobCache_clear_iter(frame, c, t) ==
    Stepped([frame EXCEPT !.at = "iter", !.used = Cardinality(DOMAIN c)], c)

\* One step of that iterator, on entry k when there is one left: it raises
\* when the dict has changed size, ends when every entry has been seen, and
\* else yields an entry, which the comprehension keeps when it is expired.
JobCache_clear_next(frame, c, t, k) ==
    IF Cardinality(DOMAIN c) # frame.used
    THEN Stepped(Raised(frame, "RuntimeError"), c)
    ELSE IF DOMAIN c \subseteq frame.seen
    THEN Stepped([frame EXCEPT !.at = "sweep"], c)
    ELSE Stepped([frame EXCEPT !.seen = @ \cup {k},
                               !.expired_keys = @ \cup (IF expired(c[k], t) THEN {k} ELSE {})],
                 c)

\* for key in expired_keys: del self.cache[key]
JobCache_clear_del(frame, c, t, k) ==
    IF frame.expired_keys = {} THEN Stepped(Returned(frame, None), c)
    ELSE IF k \notin DOMAIN c THEN Stepped(Raised(frame, "KeyError"), c)
    ELSE Stepped([frame EXCEPT !.expired_keys = @ \ {k}], Del(c, k))

\* the keys the two threads work on
ThreadKeys ==
    {get_cache_key(LinkedInJobsQuery(r)) : r \in {q \in Requests : q.limit # 3}}

ThreadCalls ==
    {Frame(op, k, "start") : op \in {"get", "set"}, k \in ThreadKeys}
    \cup {Frame("clear", <<>>, "start")}

InitThreads ==
    /\ cache \in {c \in StoredCaches : DOMAIN c \subseteq ThreadKeys}
    /\ storedBy = [k \in DOMAIN cache |->
                      Storer(LinkedInJobsQuery(
                          CHOOSE r \in Requests : get_cache_key(LinkedInJobsQuery(r)) = k))]
    /\ now \in CallTimes
    /\ ticks = 0
    /\ site = <<>>
    /\ pc = [t \in Tasks |-> "idle"]
    /\ query = [t \in Tasks |-> LinkedInJobsQuery(BaseRequest)]
    /\ all_jobs = [t \in Tasks |-> <<>>]
    /\ start = [t \in Tasks |-> 0]
    /\ result = [t \in Tasks |-> None]
    /\ error = [t \in Tasks |-> NoError]
    /\ trace = [t \in Tasks |-> <<>>]
    /\ epoch = [t \in Tasks |-> 0]
    /\ lookup = [t \in Tasks |-> [kind |-> "none", by |-> NoOne]]
    /\ treq = BaseRequest
    /\ twire = <<>>
    /\ MetaIdle
    /\ DetailIdle
    /\ admin = NotCalled
    /\ threads \in [Threads -> ThreadCalls]

threadFrame == <<now, ticks, site, pc, query, all_jobs, start, result, error, trace,
                 epoch, lookup, urlVars, metaVars, detailVars, admin>>

\* thread th takes the step s
Run(th, s) ==
    /\ threads' = [threads EXCEPT ![th] = s.frame]
    /\ cache' = s.cache
    /\ storedBy' = [k \in DOMAIN s.cache |->
                       IF k \in DOMAIN storedBy THEN storedBy[k] ELSE NoOne]
    /\ UNCHANGED threadFrame

GetStep(th) ==
    /\ threads[th].op = "get"
    /\ \/ threads[th].at = "start" /\ Run(th, JobCache_get_contains(threads[th], cache, now))
       \/ threads[th].at = "read" /\ Run(th, JobCache_get_item(threads[th], cache, now))
       \/ threads[th].at = "test" /\ Run(th, JobCache_get_expiry(threads[th], cache, now))
       \/ threads[th].at = "del" /\ Run(th, JobCache_get_del(threads[th], cache, now))

SetStep(th) ==
    /\ threads[th].op = "set"
    /\ threads[th].at = "start"
    /\ Run(th, JobCache_set_store(threads[th], cache, now))

ClearStep(th) ==
    /\ threads[th].op = "clear"
    /\ \/ threads[th].at = "start" /\ Run(th, JobCache_clear_iter(threads[th], cache, now))
       \/ /\ threads[th].at = "iter"
          /\ \E k \in (DOMAIN cache \ threads[th].seen) \cup {<<>>} :
                /\ k = <<>> => DOMAIN cache \subseteq threads[th].seen
                                \/ Cardinality(DOMAIN cache) # threads[th].used
                /\ Run(th, JobCache_clear_next(threads[th], cache, now, k))
       \/ /\ threads[th].at = "sweep"
          /\ \E k \in threads[th].expired_keys \cup {<<>>} :
                /\ k = <<>> => threads[th].expired_keys = {}
                /\ Run(th, JobCache_clear_del(threads[th], cache, now, k))

NextThreads == \E th \in Threads : GetStep(th) \/ SetStep(th) \/ ClearStep(th)

SpecThreads == InitThreads /\ [][NextThreads]_vars

----------------------------------------------------------------------------
(* The two fetchers on their own: page requests and detail fetches, one    *)
(* after the other, each answered by the source with any status and any    *)
(* body. Each run makes its own session and request; nothing is shared     *)
(* between runs but the record kept here of what each one produced.        *)

MaxFetches == 2

FetchStatuses == {200, 201, 204, 301, 304, 404, 429, 500, 503}

FetchBodies == {Body(<<Li("p1", "c1"), Li("", "c2")>>), Body(<<>>), Unparseable}

PageResponses ==
    {[transport |-> FALSE, status |-> st, body |-> b] :
        st \in FetchStatuses, b \in FetchBodies}
    \cup {[transport |-> TRUE, status |-> 0, body |-> Body(<<>>)]}

JobResponses ==
    {[transport |-> FALSE, status |-> st, parses |-> p] :
        st \in FetchStatuses, p \in BOOLEAN}
    \cup {[transport |-> TRUE, status |-> 0, parses |-> FALSE]}

JobUrl == Join(<<"https://", "www.linkedin.com", "/jobs/view/", "1">>)

Fetched(kind, response, out) == [kind |-> kind, response |-> response, out |-> out]

InitFetch ==
    /\ SearchIdle
    /\ MetaIdle
    /\ DetailIdle
    /\ AdminIdle

\* one call of fetch_job_batch
PageRequest(response) ==
    /\ Len(fetches) < MaxFetches
    /\ fetches' = Append(fetches, Fetched("page", response, fetch_job_batch(response)))
    /\ UNCHANGED <<durl, dout, searchVars, urlVars, metaVars, admin, threads>>

\* one call of _get_job_details_async
DetailFetch(response) ==
    /\ Len(fetches) < MaxFetches
    /\ fetches' = Append(fetches, Fetched("detail", response,
                                          _get_job_details_async(JobUrl, response)))
    /\ UNCHANGED <<durl, dout, searchVars, urlVars, metaVars, admin, threads>>

NextFetch ==
    \/ \E response \in PageResponses : PageRequest(response)
    \/ \E response \in JobResponses : DetailFetch(response)

SpecFetch == InitFetch /\ [][NextFetch]_vars

----------------------------------------------------------------------------
(* Reading a task's trace *)

\* the events of a trace with a given op, in order
RECURSIVE EventsOf(_, _)
EventsOf(tr, op) ==
    IF tr = <<>> THEN <<>>
    ELSE (IF Head(tr).op = op THEN <<Head(tr).arg>> ELSE <<>>) \o EventsOf(Tail(tr), op)

FetchOffsets(t) == EventsOf(trace[t], "fetch")
Statuses(t) == EventsOf(trace[t], "response")

\* the records of the first n pages task t fetched, in fetch order
RECURSIVE PagesRecords(_, _)
PagesRecords(offs, n) ==
    IF n = 0 THEN <<>>
    ELSE PagesRecords(offs, n - 1) \o _parse_job_list(PageAt(site, offs[n]))

Accumulated(t) == PagesRecords(FetchOffsets(t), Len(FetchOffsets(t)))

\* task t was served from the cache: it returned without a page request
ServedFromCache(t) == pc[t] = "done" /\ epoch[t] > 0 /\ trace[t] = <<>>

\* the step is the start of a search by task t
Starts(t) == epoch'[t] # epoch[t]

----------------------------------------------------------------------------
(* C1: a search that starts while the cache holds an entry, stored by a    *)
(* search with the same wire-level query and the same limit, that is not   *)
(* older than the TTL returns that entry's list and issues no page fetch.  *)
C1_HitStep ==
    \A t \in Tasks : Starts(t) =>
        \A k \in DOMAIN cache :
            ( /\ storedBy[k] = Storer(query'[t])
              /\ now - cache[k].timestamp <= ttl )
            => /\ pc'[t] = "done"
               /\ result'[t] = Some(cache[k].data)
               /\ trace'[t] = <<>>

C1_SecondSearchServedFromCache == [][C1_HitStep]_vars

\* a second search is served from an entry exactly TTL old
C1_Witness ==
    \E t \in Tasks : ServedFromCache(t) /\ lookup[t].kind = "at_ttl" /\ result[t].v # <<>>

(* C2: when any page request of a search ends in a rate limit, an HTTP     *)
(* error or a transport failure, the search has failed: it returns no      *)
(* list, and the records of the pages fetched before are gone.             *)
C2_FailureAbortsSearch ==
    \A t \in Tasks :
        (\E i \in 1..Len(Statuses(t)) : Statuses(t)[i] # 200)
        => /\ pc[t] = "failed"
           /\ result[t] = None
           /\ all_jobs[t] = <<>>
           /\ Statuses(t)[Len(Statuses(t))] # 200
           /\ Len(FetchOffsets(t)) = Len(Statuses(t))

\* a rate limit on the second page, after a first page with records
C2_Witness ==
    \E t \in Tasks :
        /\ pc[t] = "failed"
        /\ Statuses(t) = <<200, 429>>
        /\ _parse_job_list(PageAt(site, FetchOffsets(t)[1])) # <<>>

(* C3: with a limit L > 0 a search never returns more than L records; it   *)
(* issues a page request only while fewer than L records are accumulated,  *)
(* and once L or more are accumulated it returns exactly the first L of    *)
(* them, in fetch order.                                                   *)
C3_LimitCutsAndStops ==
    \A t \in Tasks : query[t].limit > 0 =>
        /\ result[t].some => Len(result[t].v) <= query[t].limit
        /\ pc[t] # "failed" =>
             \A n \in 0..(Len(FetchOffsets(t)) - 1) :
                 Len(PagesRecords(FetchOffsets(t), n)) < query[t].limit
        /\ (pc[t] = "done" /\ trace[t] # <<>> /\ Len(Accumulated(t)) >= query[t].limit)
           => result[t] = Some(SubSeq(Accumulated(t), 1, query[t].limit))
        /\ pc[t] \in {"sleep", "fetch"} => Len(all_jobs[t]) < query[t].limit

\* two pages gave four records, the limit is three
C3_Witness ==
    \E t \in Tasks :
        /\ pc[t] = "done" /\ query[t].limit = 3
        /\ Len(Accumulated(t)) = 4 /\ Len(result[t].v) = 3
        /\ Len(FetchOffsets(t)) = 2

(* C4: with limit 0 the loop ends only on a page with zero records (or a   *)
(* failure): every page before the last fetched one had records, and a     *)
(* search that ends on a zero-record page returns all accumulated records. *)
C4_UnboundedUntilEmptyPage ==
    \A t \in Tasks : (query[t].limit = 0 /\ trace[t] # <<>> /\ pc[t] # "failed") =>
        LET offs == FetchOffsets(t)
            got(n) == _parse_job_list(PageAt(site, offs[n]))
        IN /\ \A n \in 1..(Len(offs) - 1) : got(n) # <<>>
           /\ pc[t] \in {"close", "done"} => got(Len(offs)) = <<>>
           /\ pc[t] = "sleep" => got(Len(offs)) # <<>>
           /\ pc[t] = "close" => all_jobs[t] = Accumulated(t)
           /\ pc[t] = "done" => result[t] = Some(Accumulated(t))

\* three requests: two pages with records, then the empty page
C4_Witness ==
    \E t \in Tasks :
        /\ pc[t] = "done" /\ query[t].limit = 0
        /\ Len(FetchOffsets(t)) = 3 /\ Len(result[t].v) = 4

(* C5: an entry is created or changed only by the step in which a search   *)
(* completes successfully, it holds exactly the non-empty list that search *)
(* returns, and it is stored under that search's key; no entry ever holds  *)
(* an empty list.                                                          *)
C5_WriteStep ==
    \A k \in DOMAIN cache' :
        /\ cache'[k].data # <<>>
        /\ (k \notin DOMAIN cache \/ cache'[k] # cache[k])
           => \E t \in Tasks :
                 /\ pc[t] = "close" /\ pc'[t] = "done"
                 /\ k = get_cache_key(query[t])
                 /\ result'[t] = Some(cache'[k].data)
                 /\ cache'[k].data = all_jobs[t]
                 /\ cache'[k].timestamp = now

C5_CacheWrittenOnlyOnCompletion == [][C5_WriteStep]_vars

\* an entry stored while the other task's page loop is still running
C5_Witness ==
    \E t, u \in Tasks :
        /\ pc[t] = "done" /\ trace[t] # <<>>
        /\ get_cache_key(query[t]) \in DOMAIN cache
        /\ cache[get_cache_key(query[t])].data = result[t].v
        /\ pc[u] \in {"fetch", "sleep"} /\ all_jobs[u] # <<>>

(* C6: the lookup of a starting search hits (the stored list is returned,  *)
(* the cache is left as it was) when its key is present and the entry is   *)
(* at most TTL old, an entry exactly TTL old included; it misses when the  *)
(* key is absent (cache unchanged) or the entry is older than TTL, and     *)
(* then that entry, and only it, is removed by the lookup.                 *)
C6_GetStep ==
    \A t \in Tasks : Starts(t) =>
        LET key == get_cache_key(query'[t])
        IN /\ key \notin DOMAIN cache
              => pc'[t] = "fetch" /\ result'[t] = None /\ cache' = cache
           /\ (key \in DOMAIN cache /\ now - cache[key].timestamp <= ttl)
              => pc'[t] = "done" /\ result'[t] = Some(cache[key].data) /\ cache' = cache
           /\ (key \in DOMAIN cache /\ now - cache[key].timestamp > ttl)
              => /\ pc'[t] = "fetch" /\ result'[t] = None
                 /\ DOMAIN cache' = (DOMAIN cache) \ {key}
                 /\ \A k \in DOMAIN cache' : cache'[k] = cache[k]

C6_GetHitsUntilTtlAndEvictsAfter == [][C6_GetStep]_vars

\* a lookup found its entry expired and removed it, the search fetches
C6_Witness ==
    \E t \in Tasks :
        /\ lookup[t].kind = "expired" /\ pc[t] = "fetch"
        /\ get_cache_key(query[t]) \notin DOMAIN cache

\* each request of the model with its key and what its search stores
Keyed ==
    {<<r, get_cache_key(LinkedInJobsQuery(r)), Storer(LinkedInJobsQuery(r))>> :
        r \in Requests}

C7_KeysDistinct == \A p, q \in Keyed : (p[2] = q[2]) <=> (p[3] = q[3])

(* C7: the cache key stands for exactly the wire-level query of the first  *)
(* page and the limit: every request that maps to the key of a stored      *)
(* entry has the URL and the limit of the search that stored it, requests  *)
(* with equal URL and limit share a key, and requests that differ in the   *)
(* limit, or in the URL, have different keys.                              *)
C7_KeyIsQueryAndLimit ==
    /\ C7_KeysDistinct
    /\ \A p \in Keyed : p[2] \in DOMAIN cache => storedBy[p[2]] = p[3]
    /\ \A t \in Tasks : ServedFromCache(t) =>
          /\ lookup[t].by = Storer(query[t])
          /\ Len(result[t].v) <= query[t].limit \/ query[t].limit = 0

\* two entries for one wire-level query, stored under different limits
C7_Witness ==
    \E k1, k2 \in DOMAIN cache :
        /\ k1 # k2
        /\ storedBy[k1].url = storedBy[k2].url
        /\ storedBy[k1].limit # storedBy[k2].limit
        /\ cache[k1].data # cache[k2].data

(* C8: a search returns an empty list as a success only when it reached   *)
(* the source, every page request it made was answered with status 200,    *)
(* and the first page yielded no records; a rate limit, an HTTP error or a *)
(* transport failure always ends the search as a failure of that kind and  *)
(* never as a returned list.                                               *)
C8_FailureIsNeverEmptySuccess ==
    \A t \in Tasks :
        /\ (pc[t] = "done" /\ result[t] = Some(<<>>))
           => /\ Statuses(t) = <<200>>
              /\ Accumulated(t) = <<>>
              /\ error[t] = NoError
        /\ \A i \in 1..Len(Statuses(t)) :
              LET st == Statuses(t)[i]
              IN st # 200 =>
                   /\ pc[t] = "failed" /\ ~result[t].some
                   /\ error[t] = [kind |-> IF st = 0 THEN "Transport"
                                           ELSE IF st = 429 THEN "RateLimited"
                                           ELSE "HttpError",
                                  status |-> st]
        /\ pc[t] = "failed" <=> error[t] # NoError
        /\ pc[t] = "failed" => Statuses(t) # <<>> /\ Statuses(t)[Len(Statuses(t))] # 200

\* an empty success on the source without pages, beside a failed search
C8_Witness ==
    \E t, u \in Tasks :
        /\ pc[t] = "done" /\ result[t] = Some(<<>>) /\ site = <<>>
        /\ pc[u] = "failed" /\ error[u].kind = "HttpError"

\* a search run alone against source s, no request failing
RECURSIVE SequentialSearch(_, _, _, _)
SequentialSearch(s, self, acc, batch_start) ==
    LET jobs == _parse_job_list(PageAt(s, request_start(self, batch_start)))
        acc2 == acc \o jobs
    IN IF jobs = <<>> THEN acc
       ELSE IF self.limit > 0 /\ Len(acc2) >= self.limit
       THEN SubSeq(acc2, 1, self.limit)
       ELSE SequentialSearch(s, self, acc2, batch_start + batch_size)

(* C9: against the unchanged source every list a search returns, fetched   *)
(* or cached, and every cache entry is the complete list that one search   *)
(* running alone produces for that query and limit, also when two searches *)
(* of the same key both miss, both fetch and both write the entry.         *)
C9_ConcurrentSearchesAgree ==
    /\ \A t \in Tasks : pc[t] = "done" =>
          result[t] = Some(SequentialSearch(site, query[t], <<>>, 0))
    /\ \A p \in Keyed : p[2] \in DOMAIN cache
          => cache[p[2]].data = SequentialSearch(site, LinkedInJobsQuery(p[1]), <<>>, 0)

\* both searches of one key missed, fetched several pages each and returned
C9_Witness ==
    /\ \A t \in Tasks : pc[t] = "done" /\ Len(FetchOffsets(t)) >= 2
    /\ get_cache_key(query["t1"]) = get_cache_key(query["t2"])
    /\ get_cache_key(query["t1"]) \in DOMAIN cache
    /\ result["t1"] = result["t2"]
    /\ Len(result["t1"].v) >= 3

\* the values a wire key must carry for a looked-up value
Coded(table, v) == IF v \in DOMAIN table THEN {table[v]} ELSE {}

Occurrences(u, name) == Cardinality({i \in 1..Len(u) : u[i][1] = name})

(* C10: each categorical field goes through its table: the wire key is     *)
(* present with the table's code when the (lower-cased) value is in the    *)
(* table and absent otherwise; the sort key is present for "recent" and    *)
(* "relevant" only; f_VJ and f_EA are present in every URL, once, with     *)
(* "true" or "false".                                                      *)
C10_CategoricalTranslation ==
    twire # <<>> =>
        /\ WireValues(twire, "f_TPR") = Coded(date_range, lower(treq.dateSincePosted))
        /\ WireValues(twire, "f_E") = Coded(experience_range, lower(treq.experienceLevel))
        /\ WireValues(twire, "f_JT") = Coded(job_type_range, lower(treq.jobType))
        /\ WireValues(twire, "f_WT") = Coded(remote_filter_range, lower(treq.remoteFilter))
        /\ WireValues(twire, "sortBy") =
              (IF treq.sortBy = "recent" THEN {"DD"}
               ELSE IF treq.sortBy = "relevant" THEN {"R"} ELSE {})
        /\ treq.dateSincePosted = "past week" => WireValues(twire, "f_TPR") = {"r604800"}
        /\ treq.experienceLevel = "senior" => WireValues(twire, "f_E") = {"4"}
        /\ treq.jobType = "full time" => WireValues(twire, "f_JT") = {"F"}
        /\ treq.remoteFilter = "remote" => WireValues(twire, "f_WT") = {"2"}
        /\ treq.dateSincePosted \in {"", "invalid"} => WireValues(twire, "f_TPR") = {}
        /\ treq.experienceLevel \in {"", "guru"} => WireValues(twire, "f_E") = {}
        /\ treq.jobType \in {"", "freelance"} => WireValues(twire, "f_JT") = {}
        /\ treq.remoteFilter \in {"", "moon"} => WireValues(twire, "f_WT") = {}
        /\ WireValues(twire, "f_VJ") = {IF treq.has_verification THEN "true" ELSE "false"}
        /\ WireValues(twire, "f_EA") = {IF treq.under_10_applicants THEN "true" ELSE "false"}
        /\ \A name \in {"f_TPR", "f_E", "f_JT", "f_WT", "sortBy"} : Occurrences(twire, name) <= 1
        /\ Occurrences(twire, "f_VJ") = 1 /\ Occurrences(twire, "f_EA") = 1

\* a URL built from known, unknown and empty values
C10_Witness ==
    /\ twire # <<>>
    /\ treq.dateSincePosted = "invalid" /\ treq.experienceLevel = "senior"
    /\ treq.jobType = "" /\ treq.remoteFilter = "moon" /\ treq.sortBy = "oldest"
    /\ WireValues(twire, "f_E") = {"4"} /\ WireValues(twire, "f_WT") = {}

----------------------------------------------------------------------------
(* The translator on the salary field: the caller's dict carries the       *)
(* minimum salary as a Python int or as its decimal string (the form the   *)
(* HTTP request model, the Django form and test_python.py supply).         *)

\* str(n) for the salaries of the request space
Decimal(n) ==
    CASE n = 40000 -> "40000"
      [] n = 50000 -> "50000"
      [] n = 60000 -> "60000"
      [] n = 80000 -> "80000"
      [] n = 100000 -> "100000"
      [] n = 120000 -> "120000"

SalaryRequests ==
    {[BaseRequest EXCEPT !.salary = sal, !.dateSincePosted = d,
                         !.has_verification = hv, !.under_10_applicants = ua] :
        sal \in {StrVal("")} \cup {IntVal(n) : n \in DOMAIN salary_range \cup {50000}}
                    \cup {StrVal(Decimal(n)) : n \in DOMAIN salary_range \cup {50000}},
        d \in {"", "past week"},
        hv \in BOOLEAN, ua \in BOOLEAN}

InitSalary ==
    /\ cache = <<>>
    /\ storedBy = <<>>
    /\ now = 0
    /\ ticks = 0
    /\ site = <<>>
    /\ pc = [t \in Tasks |-> "idle"]
    /\ query = [t \in Tasks |-> LinkedInJobsQuery(BaseRequest)]
    /\ all_jobs = [t \in Tasks |-> <<>>]
    /\ start = [t \in Tasks |-> 0]
    /\ result = [t \in Tasks |-> None]
    /\ error = [t \in Tasks |-> NoError]
    /\ trace = [t \in Tasks |-> <<>>]
    /\ epoch = [t \in Tasks |-> 0]
    /\ lookup = [t \in Tasks |-> [kind |-> "none", by |-> NoOne]]
    /\ treq \in SalaryRequests
    /\ twire = <<>>
    /\ MetaIdle
    /\ DetailIdle
    /\ AdminIdle

SpecSalary == InitSalary /\ [][NextUrl]_vars

(* C11: for each minimum salary of the fixed set, given as the integer or  *)
(* as its decimal string, the URL carries f_SB2 with the code 1..5 of that *)
(* salary (100000 gives 4).                                                *)
C11_SalaryCodeForIntAndString ==
    twire # <<>> =>
        \A n \in {40000, 60000, 80000, 100000, 120000} :
            treq.salary \in {IntVal(n), StrVal(Decimal(n))} =>
                /\ WireValues(twire, "f_SB2") = {salary_range[n]}
                /\ n = 100000 => WireValues(twire, "f_SB2") = {"4"}

----------------------------------------------------------------------------

\* the elements of a page that have both a position and a company
Complete(e) == e.title # "" /\ e.subtitle # ""
ValidElements(page) == SelectSeq(page.li, LAMBDA e : Complete(e) /\ ~e.raises)

\* Every record list the program holds: accumulated, returned or cached
HeldLists ==
    {all_jobs[t] : t \in Tasks}
    \cup {result[t].v : t \in {u \in Tasks : result[u].some}}
    \cup {cache[k].data : k \in DOMAIN cache}
    \cup {_parse_job_list(site[i]) : i \in 1..Len(site)}

(* C12: the listing parser emits a record for a list item exactly when     *)
(* its position and its company are both non-empty: the records of a       *)
(* parsed page are those of its complete items, in page order; every       *)
(* record of every parsed page, accumulated or returned list and cache     *)
(* entry has a non-empty position and company; a record of an item with no *)
(* salary element has the salary "Not specified".                          *)
C12_RecordIffPositionAndCompany ==
    /\ \A l \in HeldLists : \A i \in 1..Len(l) :
          l[i].position # "" /\ l[i].company # ""
    /\ \A p \in 1..Len(site) :
          LET parsed == _parse_job_list(site[p])
              valid == ValidElements(site[p])
          IN site[p].parses =>
                /\ Len(parsed) = Len(valid)
                /\ \A i \in 1..Len(valid) :
                      /\ parsed[i].position = valid[i].title
                      /\ parsed[i].company = valid[i].subtitle
                      /\ valid[i].salary = <<>> => parsed[i].salary = "Not specified"

\* a page with a complete item and one without a company was parsed, and
\* the search returned and cached the complete one alone
C12_Witness ==
    \E t \in Tasks :
        /\ pc[t] = "done" /\ result[t].some /\ FetchOffsets(t) = <<0, 25>>
        /\ Len(site) > 0 /\ Len(site[1].li) = 2 /\ ~Complete(site[1].li[2])
        /\ Len(result[t].v) = 1 /\ result[t].v[1].salary = "Not specified"
        /\ \E k \in DOMAIN cache : cache[k].data = result[t].v

----------------------------------------------------------------------------
(* Reading a metadata parser run *)

\* the posted-time text the patterns are applied to ("" without the span)
PostedText == IF msoup.posted = <<>> THEN <<>> ELSE str_lower(msoup.posted[1])

\* the shapes of a relative time in their order of precedence
ShapeOrder == <<"hour", "day", "week", "month", "year">>

\* the first shape of ShapeOrder from k on that occurs in the text, 0 if none
RECURSIVE FirstShape(_, _)
FirstShape(text, k) ==
    IF k > Len(ShapeOrder) THEN 0
    ELSE IF re_search(time_pattern(ShapeOrder[k]), text).ok THEN k
    ELSE FirstShape(text, k + 1)

\* the number N of the occurrence of a shape that re.search finds
ShapeNumber(text, k) == int(re_search(time_pattern(ShapeOrder[k]), text).group1)

\* the day of now minus N units, as an ordinal
DayBefore(t, unit, n) ==
    CASE unit = "hour" -> (t.day * 24 + t.hour - n) \div 24
      [] unit = "day" -> t.day - n
      [] unit = "week" -> t.day - 7 * n
      [] unit = "month" -> t.day - 30 * n
      [] unit = "year" -> t.day - 365 * n

\* the posted date the first matching shape stands for
ShapeDay ==
    LET k == FirstShape(PostedText, 1)
    IN DayBefore(mnow, ShapeOrder[k], ShapeNumber(PostedText, k))

\* C13 as stated: whenever a shape matches, the posted date is the calendar
\* date of now minus the amount of the first matching shape.
C13_FirstShapeGivesDate ==
    (mout.done /\ FirstShape(PostedText, 1) # 0) =>
        mout.posted_date = IsoDate(ShapeDay)

(* C13 (amended): when the posted-time text matches one or more of the     *)
(* five shapes, the first matching shape in the order hour, day, week,     *)
(* month, year decides, wherever the matches stand; the posted date is the *)
(* calendar date of now minus N hours, N days, 7N days, 30N days or 365N   *)
(* days when that date is not before 0001-01-01, and empty when it is;     *)
(* "3 days ago" gives the date 3 days before the parse time.               *)
C13_FirstShapeGivesDateInRange ==
    /\ (mout.done /\ FirstShape(PostedText, 1) # 0) =>
          mout.posted_date = (IF ShapeDay >= MinOrdinal THEN IsoDate(ShapeDay)
                              ELSE RawText(<<>>))
    /\ (mout.done /\ PostedText = Join(<<"3", " ", "days", " ", "ago">>)) =>
          mout.posted_date = IsoDate(mnow.day - 3)

\* a text with a day shape before an hour shape, parsed in the small hours:
\* the hour shape decides and the date is the day before
C13_Witness ==
    /\ mout.done /\ mnow.hour = 3
    /\ re_search(time_pattern("day"), PostedText).ok
    /\ re_search(time_pattern("day"), PostedText).end
          < re_search(time_pattern("hour"), PostedText).end
    /\ mout.posted_date = IsoDate(mnow.day - 1)

\* the caption text the patterns are applied to ("" without the caption)
CaptionText == IF msoup.caption = <<>> THEN <<>> ELSE str_lower(msoup.caption[1])

\* the number of the first caption shape, in the fixed order, that occurs
ShapeCount(text) ==
    re_search(applicant_patterns[first_match(applicant_patterns, text, 1)].pattern,
              text).group1

\* the date arithmetic of the posted-time block overflowed
DateOverflow == FirstShape(PostedText, 1) # 0 /\ ShapeDay < MinOrdinal

(* C14: when the applicant caption matches one or more of the four shapes, *)
(* the first matching shape in the fixed order gives the number N and the  *)
(* applicant count is "N applicants"; "25 people clicked apply" gives      *)
(* "25 applicants".                                                        *)
C14_FirstCaptionShapeGivesCount ==
    /\ (mout.done /\ msoup.caption # <<>>
           /\ first_match(applicant_patterns, CaptionText, 1) # 0) =>
          mout.applicant_count = ShapeCount(CaptionText) \o Chars(" applicants")
    /\ (mout.done /\ CaptionText
            = Join(<<"25", " ", "people", " ", "clicked", " ", "apply">>)) =>
          mout.applicant_count = Join(<<"25", " applicants">>)

\* what does hold of the caption shapes: the count is "N applicants" unless
\* the caption has "100+" or "over 100", or the date arithmetic overflowed
C14_HoldsWithoutOverrideAndOverflow ==
    (mout.done /\ msoup.caption # <<>> /\ ~DateOverflow
        /\ ~contains(CaptionText, Chars("100+"))
        /\ ~contains(CaptionText, Chars("over 100"))
        /\ first_match(applicant_patterns, CaptionText, 1) # 0) =>
       mout.applicant_count = ShapeCount(CaptionText) \o Chars(" applicants")

(* C15: whenever the applicant caption text contains "100+" or "over 100", *)
(* the applicant count is "100+ applicants", whatever the ordered patterns *)
(* matched before.                                                         *)
C15_OverHundredOverrides ==
    (mout.done /\ msoup.caption # <<>>
        /\ (contains(CaptionText, Chars("100+"))
            \/ contains(CaptionText, Chars("over 100")))) =>
       mout.applicant_count = Chars("100+ applicants")

\* what does hold of the override: it decides unless the date arithmetic
\* overflowed
C15_HoldsWithoutOverflow ==
    (mout.done /\ msoup.caption # <<>> /\ ~DateOverflow
        /\ (contains(CaptionText, Chars("100+"))
            \/ contains(CaptionText, Chars("over 100")))) =>
       mout.applicant_count = Chars("100+ applicants")

(* C16: when the page has no applicant caption element, the applicant      *)
(* count is what the caption parser (the four ordered shapes and the       *)
(* "100+" test) gives for the full page text, and it is empty when none of *)
(* the shapes occurs in that text (stated for the pages whose date         *)
(* arithmetic does not overflow).                                          *)
C16_PageScanSameAsCaptionParser ==
    (mout.done /\ msoup.caption = <<>> /\ ~DateOverflow) =>
        /\ mout.applicant_count = caption_count(get_text(msoup))
        /\ first_match(applicant_patterns, str_lower(get_text(msoup)), 1) = 0 =>
              mout.applicant_count = <<>>

\* an applicant count in normalized form: "N applicants" for a decimal N
Normalized(count) ==
    LET n == Len(count) - Len(Chars(" applicants"))
    IN /\ n >= 1
       /\ isdigit(SubSeq(count, 1, n))
       /\ SubSeq(count, n + 1, Len(count)) = Chars(" applicants")

(* C17: the applicant count returned for a detail page is empty, "100+     *)
(* applicants" or "N applicants" for a decimal number N; raw caption text  *)
(* is never returned, also when a caption is present and matches no shape. *)
C17_ApplicantCountNormalized ==
    mout.done =>
        \/ mout.applicant_count = <<>>
        \/ mout.applicant_count = Chars("100+ applicants")
        \/ Normalized(mout.applicant_count)

\* what does hold of the form: the count is normalized unless a caption is
\* present and matches no shape, and then it is the caption text as it is
C17_NormalizedOrRawCaption ==
    mout.done =>
        IF /\ msoup.caption # <<>> /\ ~DateOverflow
           /\ caption_count(msoup.caption[1]) = <<>> /\ msoup.caption[1] # <<>>
        THEN mout.applicant_count = msoup.caption[1]
        ELSE C17_ApplicantCountNormalized

(* C18: the metadata parser never raises, whatever the page and the        *)
(* posted-time text (a number too large for the date arithmetic included); *)
(* when no relative-time shape matches or there is no posted-time element, *)
(* the posted date is the datetime attribute of the page's <time> element  *)
(* if there is one ("" when it has no such attribute) and empty otherwise. *)
C18_NeverRaisesAndTimeFallback ==
    mout.done =>
        /\ ~mout.raised
        /\ FirstShape(PostedText, 1) = 0 =>
              mout.posted_date = (IF msoup.time # <<>> THEN RawText(msoup.time[1])
                                  ELSE RawText(<<>>))

\* a posted-time text without a shape on a page with a <time> element: the
\* attribute is returned as it is
C18_Witness ==
    /\ mout.done /\ ~mout.raised
    /\ msoup.posted = <<Join(<<"Just", " ", "now">>)>>
    /\ msoup.time = <<Join(<<"2024-01-05">>)>>
    /\ mout.posted_date = RawText(Join(<<"2024-01-05">>))

----------------------------------------------------------------------------
(* Reading a detail request *)

\* the characters of s from position i up to the first of the stop set
RECURSIVE UpTo(_, _, _)
UpTo(s, i, stops) ==
    IF i > Len(s) \/ s[i] \in stops THEN <<>> ELSE <<s[i]>> \o UpTo(s, i + 1, stops)

\* the host an https URL names, and the path that follows it
Host(u) == UpTo(u, Len(Chars("https://")) + 1, {"/", "?", "#"})
Path(u) ==
    LET from == Len(Chars("https://")) + Len(Host(u)) + 1
    IN IF from > Len(u) THEN <<>> ELSE SubSeq(u, from, Len(u))

\* a host of the source site: linkedin.com or a subdomain of it
SourceHost(h) ==
    \/ h = Chars("linkedin.com")
    \/ /\ Len(h) > Len(Chars(".linkedin.com"))
       /\ SubSeq(h, Len(h) - Len(Chars(".linkedin.com")) + 1, Len(h))
             = Chars(".linkedin.com")

\* a job-posting URL of the source site
JobPostingUrl(u) ==
    /\ startswith(u, Chars("https://"))
    /\ SourceHost(Host(u))
    /\ startswith(Path(u), Chars("/jobs/view/"))

(* C19: every request a detail endpoint issues goes to the host            *)
(* www.linkedin.com; a job URL on a regional subdomain of the source site  *)
(* is rewritten to that host before fetching, and rewriting a rewritten    *)
(* URL changes nothing; a URL that is not a job-posting URL of the source  *)
(* site is answered with 400 and no request is issued for it.              *)
C19_DetailRequestsGoToCanonicalHost ==
    dout.status # 0 =>
        /\ \A i \in 1..Len(dout.requested) :
              Host(dout.requested[i]) = Chars("www.linkedin.com")
        /\ JobPostingUrl(durl.job_url) =>
              Host(canonical(durl.job_url)) = Chars("www.linkedin.com")
        /\ canonical(canonical(durl.job_url)) = canonical(durl.job_url)
        /\ ~JobPostingUrl(durl.job_url) =>
              dout.status = 400 /\ dout.requested = <<>>

\* what does hold of the endpoints: a request is issued exactly for the
\* URLs the URL test accepts, and it goes to the URL with every
\* "pt.linkedin.com" replaced by "www.linkedin.com"
C19_RequestsFollowUrlTest ==
    dout.status # 0 =>
        /\ dout.requested = (IF valid_job_url(durl.job_url)
                             THEN <<canonical(durl.job_url)>> ELSE <<>>)
        /\ dout.requested = <<>> <=> dout.status = 400
        /\ canonical(canonical(durl.job_url)) = canonical(durl.job_url)

----------------------------------------------------------------------------

\* the keys whose entry is older than ttl at the time of the call
TooOld == {k \in DOMAIN cache : now - cache[k].timestamp > ttl}

\* a step of an administrative call: the call named by admin' acted
C20_AdminStep ==
    /\ admin'.op \in {"clear_cache", "clear_job_cache"} =>
          /\ DOMAIN cache' = (DOMAIN cache) \ TooOld
          /\ \A k \in DOMAIN cache' :
                /\ cache'[k].data = cache[k].data
                /\ cache'[k].timestamp = cache[k].timestamp
    /\ admin'.op = "get_cache_size" =>
          /\ admin'.ret = <<Cardinality(DOMAIN cache)>>
          /\ cache' = cache
    /\ admin'.op = "clear_job_cache" =>
          admin'.ret = <<Cardinality((DOMAIN cache) \ TooOld)>>
    /\ UNCHANGED <<now, site, pc, query, all_jobs, start, result, error, trace,
                   epoch, lookup, treq, twire, msoup, mnow, mout, durl, dout>>

----------------------------------------------------------------------------
(* C21: the outcome of a page request that got a response is decided by    *)
(* the HTTP status alone, whatever the body: 200 returns the records       *)
(* parsed from the body, 429 raises the rate-limit failure, every other    *)
(* status (201, 204, 301, 304 included) raises an HTTP failure carrying    *)
(* the status. The detail fetcher follows the same rule, and a failed      *)
(* detail fetch touches nothing beyond itself: the fetches before and      *)
(* after it have the outcome of their own response, and the search state   *)
(* and the cache are as they were.                                         *)
C21_StatusDecidesOutcome ==
    /\ SearchIdle
    /\ \A i \in 1..Len(fetches) :
          LET response == fetches[i].response
              out == fetches[i].out
          IN ~response.transport =>
                IF fetches[i].kind = "page"
                THEN CASE response.status = 200 ->
                            out = Return(_parse_job_list(response.body))
                       [] response.status = 429 -> out = Raise("RateLimited", 429)
                       [] OTHER -> out = Raise("HttpError", response.status)
                ELSE CASE response.status = 200 ->
                            ~out.raised /\ out.error = ~response.parses
                       [] response.status = 429 ->
                            out.raised /\ out.message = "Rate limit reached"
                       [] OTHER ->
                            /\ out.raised
                            /\ out.message = "HTTP"
                            /\ out.http = response.status

\* a detail fetch answered 204 fails, and the detail fetch after it succeeds
C21_Witness ==
    /\ Len(fetches) = 2
    /\ fetches[1].kind = "detail" /\ fetches[1].response.status = 204
    /\ fetches[1].out.raised
    /\ fetches[2].kind = "detail" /\ fetches[2].response.status = 200
    /\ ~fetches[2].out.raised

----------------------------------------------------------------------------
(* C22: the page requests of one search carry the start offsets            *)
(* page*25, page*25 + 25, page*25 + 50, ... in that order, so none is      *)
(* requested a second time; and a request that ended in a failure is the   *)
(* last one of its search.                                                 *)
C22_OffsetsInOrderNoRetry ==
    \A t \in Tasks :
        /\ \A i \in 1..Len(FetchOffsets(t)) :
              FetchOffsets(t)[i] = query[t].page * batch_size + (i - 1) * batch_size
        /\ \A i \in 1..Len(Statuses(t)) :
              Statuses(t)[i] # 200 =>
                 /\ i = Len(FetchOffsets(t))
                 /\ trace[t][Len(trace[t])] = Event("response", Statuses(t)[i])
                 /\ pc[t] = "failed"

\* a search from page 1 requested offset 25, then 50, and the second failed
C22_Witness ==
    \E t \in Tasks :
        /\ query[t].page = 1
        /\ FetchOffsets(t) = <<25, 50>>
        /\ Statuses(t) = <<200, 500>>
        /\ pc[t] = "failed"

----------------------------------------------------------------------------
(* C23: in every search a pacing delay stands between each two consecutive *)
(* page requests and nowhere else: the first event is a request, every     *)
(* later request follows a delay, every delay follows a response and is    *)
(* followed by the next request (or is in progress), and a search that     *)
(* has left the loop ends with a response, not a delay. A search served    *)
(* from the cache has no delay (and no request).                           *)
C23_DelayOnlyBetweenFetches ==
    \A t \in Tasks :
        LET tr == trace[t]
        IN /\ tr # <<>> => tr[1].op = "fetch"
           /\ \A i \in 2..Len(tr) : tr[i].op = "fetch" => tr[i - 1].op = "sleep"
           /\ \A i \in 1..Len(tr) :
                 tr[i].op = "sleep" =>
                    /\ i > 1 /\ tr[i - 1] = Event("response", 200)
                    /\ IF i < Len(tr) THEN tr[i + 1].op = "fetch" ELSE pc[t] = "sleep"
           /\ (pc[t] \in {"close", "done", "failed"} /\ tr # <<>>)
                 => tr[Len(tr)].op = "response"
           /\ (pc[t] = "done" /\ lookup[t].kind \in {"fresh", "at_ttl"}) => tr = <<>>

\* a finished search of two page requests with one delay between them
C23_Witness ==
    \E t \in Tasks :
        /\ pc[t] = "done"
        /\ Len(trace[t]) = 5
        /\ EventsOf(trace[t], "sleep") = <<0>>
        /\ trace[t][3].op = "sleep"

----------------------------------------------------------------------------
(* C24: an item whose processing fails is skipped alone: a parsed page     *)
(* gives the records it would give without its failing items, one for      *)
(* each complete item, in page order. A page whose parse fails gives zero  *)
(* records, and that is no failure of the search: a search whose requests  *)
(* were all answered with status 200 has no error, whatever the pages      *)
(* held, and once it has ended it has returned a list.                     *)
Sound(page) == Body(SelectSeq(page.li, LAMBDA e : ~e.raises))

C24_ParseFailuresAbsorbed ==
    /\ \A p \in 1..Len(site) :
          IF site[p].parses
          THEN /\ _parse_job_list(site[p]) = _parse_job_list(Sound(site[p]))
               /\ Len(_parse_job_list(site[p])) = Len(ValidElements(site[p]))
          ELSE _parse_job_list(site[p]) = <<>>
    /\ \A t \in Tasks :
          (\A i \in 1..Len(Statuses(t)) : Statuses(t)[i] = 200)
          => /\ pc[t] # "failed"
             /\ error[t] = NoError
             /\ pc[t] = "done" => result[t].some

\* a search returned the two complete items standing around a failing item
C24_Witness ==
    \E p \in 1..Len(site) : \E i \in 2..(Len(site[p].li) - 1) :
        /\ site[p].li[i].raises
        /\ \E t \in Tasks :
              /\ pc[t] = "done" /\ result[t].some /\ Len(result[t].v) = 2
              /\ result[t].v[1].position = site[p].li[i - 1].title
              /\ result[t].v[2].position = site[p].li[i + 1].title

\* a search ended without error on a page that did not parse
C24_UnparsedPageReturned ==
    \E t \in Tasks :
        /\ pc[t] = "done" /\ Statuses(t) = <<200>>
        /\ ~PageAt(site, FetchOffsets(t)[1]).parses
        /\ result[t] = Some(<<>>)

----------------------------------------------------------------------------
(* C25: a search that ends in a failure changes the cache at most by       *)
(* evicting the expired entry of its own key: the lookup that starts a     *)
(* search leaves the cache as it is or deletes the entry of the search's   *)
(* key, and that only when the entry is older than the TTL; the steps of   *)
(* the loop, the failing one included, leave the cache unchanged; and a    *)
(* search that has failed stands at "failed", never at the cache write.    *)
C25_FailedSearchStep ==
    \A t \in Tasks :
        /\ Starts(t) =>
              LET key == get_cache_key(query'[t])
              IN \/ cache' = cache
                 \/ /\ key \in DOMAIN cache
                    /\ now - cache[key].timestamp > ttl
                    /\ cache' = Del(cache, key)
        /\ (pc[t] \in {"fetch", "sleep"} /\ pc'[t] \in {"fetch", "sleep", "failed"}
              /\ pc'[t] # pc[t])
              => cache' = cache
        /\ error'[t] # NoError => pc'[t] = "failed" /\ pc[t] \in {"fetch", "failed"}

C25_FailedSearchLeavesCache == [][C25_FailedSearchStep]_vars

\* a search found the entry of its key expired, evicted it, and failed
C25_Witness ==
    \E t \in Tasks :
        /\ pc[t] = "failed"
        /\ lookup[t].kind = "expired"
        /\ get_cache_key(query[t]) \notin DOMAIN cache

----------------------------------------------------------------------------
(* C26: a list served from the cache was stored at most ttl seconds before *)
(* the lookup that served it. An entry's timestamp is the time of the put  *)
(* that stored it: only the cache write of a completing search adds or     *)
(* changes an entry, and it stamps the entry with the current time. A      *)
(* search served from the cache finds the entry of its key not older than  *)
(* ttl, returns its list and leaves the entry, timestamp included, as it   *)
(* was: reading does not prolong an entry's life.                          *)
C26_ServeStep ==
    /\ \A k \in DOMAIN cache' :
          (k \notin DOMAIN cache \/ cache'[k] # cache[k])
          => /\ cache'[k].timestamp = now
             /\ \E t \in Tasks : pc[t] = "close" /\ pc'[t] = "done"
                                  /\ k = get_cache_key(query[t])
    /\ \A t \in Tasks :
          (Starts(t) /\ pc'[t] = "done") =>
              LET key == get_cache_key(query'[t])
              IN /\ key \in DOMAIN cache
                 /\ now - cache[key].timestamp <= ttl
                 /\ result'[t] = Some(cache[key].data)
                 /\ cache' = cache

C26_ServedWithinTtlOfPut == [][C26_ServeStep]_vars

\* a list is served exactly ttl after its put, and the entry still carries
\* the time of the put
C26_Witness ==
    \E t \in Tasks :
        /\ ServedFromCache(t)
        /\ get_cache_key(query[t]) \in DOMAIN cache
        /\ result[t] = Some(cache[get_cache_key(query[t])].data)
        /\ cache[get_cache_key(query[t])].timestamp = now - ttl

----------------------------------------------------------------------------
(* C27: with limit 0 and no request failure a search returns every valid   *)
(* record of every page the source holds, from the first offset up to the  *)
(* first page without list items; a page whose items are all invalid, or   *)
(* whose parse fails, does not hide the records of the pages after it.     *)
NoItems(page) == page.parses /\ page.li = <<>>

RECURSIVE RecordsToLastPage(_, _)
RecordsToLastPage(s, offset) ==
    IF NoItems(PageAt(s, offset)) THEN <<>>
    ELSE _parse_job_list(PageAt(s, offset)) \o RecordsToLastPage(s, offset + batch_size)

C27_AllPagesReturned ==
    \A t \in Tasks :
        (pc[t] = "done" /\ query[t].limit = 0 /\ trace[t] # <<>>)
        => result[t] = Some(RecordsToLastPage(site, get_page(query[t])))

\* what the loop does: it ends at the first page that yields zero records
RECURSIVE RecordsToEmptyBatch(_, _)
RecordsToEmptyBatch(s, offset) ==
    IF _parse_job_list(PageAt(s, offset)) = <<>> THEN <<>>
    ELSE _parse_job_list(PageAt(s, offset)) \o RecordsToEmptyBatch(s, offset + batch_size)

C27_ReturnedToFirstEmptyBatch ==
    \A t \in Tasks :
        (pc[t] = "done" /\ query[t].limit = 0 /\ trace[t] # <<>>)
        => result[t] = Some(RecordsToEmptyBatch(site, get_page(query[t])))

----------------------------------------------------------------------------
(* C28: when every request completes or times out, a search with a limit   *)
(* L > 0 ends, with a list or a failure, after at most L page requests,    *)
(* whatever the source returns; a search with limit 0 ends if and only if  *)
(* the source returns a page of zero records or a failure: its last        *)
(* request was answered that way, every page with records before it was    *)
(* followed by a further request, and once it is answered that way the     *)
(* search ends.                                                            *)
Running(t) == pc[t] \in {"fetch", "sleep", "close"}
Ended(t) == pc[t] \in {"done", "failed"}

\* the last response of the search of task t is a failure or a page of zero records
LastGaveNothing(t) ==
    LET n == Len(Statuses(t))
    IN /\ n > 0
       /\ \/ Statuses(t)[n] # 200
          \/ _parse_job_list(PageAt(site, FetchOffsets(t)[n])) = <<>>

C28_FetchesBounded ==
    \A t \in Tasks :
        /\ query[t].limit > 0 => Len(FetchOffsets(t)) <= query[t].limit
        /\ (query[t].limit = 0 /\ trace[t] # <<>>) =>
              /\ pc[t] \in {"close", "done", "failed"} <=> LastGaveNothing(t)
              /\ \A i \in 1..(Len(Statuses(t)) - 1) :
                    /\ Statuses(t)[i] = 200
                    /\ _parse_job_list(PageAt(site, FetchOffsets(t)[i])) # <<>>

C28_SearchTerminates ==
    /\ []C28_FetchesBounded
    /\ \A t \in Tasks : Running(t) ~> Ended(t)

\* a search with limit 3 has returned its list after exactly three page
\* requests, each answered with a page of records
C28_Witness ==
    \E t \in Tasks :
        /\ pc[t] = "done"
        /\ query[t].limit = 3
        /\ Statuses(t) = <<200, 200, 200>>
        /\ Len(result[t].v) = 3

----------------------------------------------------------------------------
(* C29: the applicant count does not depend on the posted-time text: the   *)
(* page parsed and any page that differs from it only in its posted-time   *)
(* text (one whose number is too large for the date subtraction included)  *)
(* get the same applicant count.                                           *)
WithPosted(soup, posted) == [soup EXCEPT !.posted = posted]

C29_CountIndependentOfPostedText ==
    mout.done =>
        \A posted \in Optional(PostedTexts) :
            _parse_job_metadata(WithPosted(msoup, posted), mnow).applicant_count
                = mout.applicant_count

\* what does hold: the counts agree whenever the date subtraction of neither
\* page overflows
C29_SameCountWithoutOverflow ==
    (mout.done /\ ~metadata_try(msoup, mnow).exc) =>
        \A posted \in Optional(PostedTexts) :
            ~metadata_try(WithPosted(msoup, posted), mnow).exc =>
                _parse_job_metadata(WithPosted(msoup, posted), mnow).applicant_count
                    = mout.applicant_count

----------------------------------------------------------------------------
(* C30: with two threads calling the cache, under every interleaving of    *)
(* the steps of get, set and clear no cache operation raises an error.     *)
C30_NoCacheOperationRaises ==
    \A th \in Threads : threads[th].exc = ""

\* what does hold: set never raises, and get and clear raise only beside
\* an operation that can change the dict's keys: a set, a get that found
\* its entry expired, or a clear that is past its scan
C30_RaisesOnlyBesideKeyChange ==
    \A th \in Threads :
        /\ threads[th].op = "set" => threads[th].exc = ""
        /\ threads[th].exc # "" =>
              \E other \in Threads \ {th} :
                  \/ threads[other].op = "set" /\ threads[other].at = "done"
                  \/ threads[other].op = "get" /\ threads[other].at = "done"
                        /\ threads[other].item # <<>>
                        /\ expired(threads[other].item[1], now)
                  \/ threads[other].op = "clear" /\ threads[other].at \in {"sweep", "done", "raised"}

====
